---- MODULE Spec2Model ----
(***************************************************************************)
(* libsync: manifest synthesis (writePackageJson), the source tree scanner *)
(* it reads, the package-json command and the build command that drive it. *)
(*                                                                         *)
(* Representation.                                                         *)
(*  - A path is a record [pre, root, segs, exts]: pre is "./" or "" (the    *)
(*    leading ./ that ensureRelativePath adds), root is the first          *)
(*    directory, segs the remaining segments (last one is the base name),  *)
(*    exts the extensions that follow the base name, last one last.        *)
(*  - A JS object is an ordered sequence of [k, v] pairs (insertion order  *)
(*    is what JSON.stringify prints).                                      *)
(*  - The manifest file is a text [valid, canon, pkg]: valid = it parses   *)
(*    as JSON, canon = it is laid out exactly as JSON.stringify(pkg,null,2)*)
(*    plus a newline would print it, pkg = the object JSON.parse returns.  *)
(***************************************************************************)
EXTENDS Integers, Sequences, FiniteSets, TLC

VARIABLES
  config,     \* the configuration singleton (_config)
  src,        \* the source directory: [exists, files]
  built,      \* files under the package root outside the source directory
  manifest,   \* text of <root>/package.json
  proxies,    \* generated submodule directories: set of [name, pkg]
  gitignore,  \* <root>/.gitignore: [exists, lines]
  build,      \* position and locals of a running buildCommand
  hist,       \* the last operation and its outcome
  orig,       \* the manifest text the package started with
  edits,      \* number of source/build edits made by the environment
  call,       \* the last call of a library function made on its own, with its result
  run         \* a packageJsonCommand over several paths, and its watchers

vars == <<config, src, built, manifest, proxies, gitignore, build, hist, orig, edits, call, run>>

----------------------------------------------------------------------------
(* Bounds *)

MaxEdits == 1

----------------------------------------------------------------------------
(* Generic helpers for ordered objects *)

Last(s) == s[Len(s)]

Front(s) == SubSeq(s, 1, Len(s) - 1)

RECURSIVE SeqToSet(_)
SeqToSet(s) == IF s = <<>> THEN {} ELSE {Head(s)} \cup SeqToSet(Tail(s))

Keys(obj) == [i \in 1..Len(obj) |-> obj[i].k]

HasKey(obj, key) == \E i \in 1..Len(obj) : obj[i].k = key

Get(obj, key) == obj[CHOOSE i \in 1..Len(obj) : obj[i].k = key].v

PutMutantMovesLast(obj, key, val) ==
  Append(SelectSeq(obj, LAMBDA e : e.k # key), [k |-> key, v |-> val])

\* obj[key] = val : an existing key keeps its position, a new key goes last
Put(obj, key, val) ==
  IF HasKey(obj, key)
  THEN [i \in 1..Len(obj) |-> IF obj[i].k = key THEN [k |-> key, v |-> val] ELSE obj[i]]
  ELSE Append(obj, [k |-> key, v |-> val])

\* delete obj[key]
Delete(obj, key) == SelectSeq(obj, LAMBDA e : e.k # key)

\* { ...a, ...b }
RECURSIVE Spread(_, _)
Spread(a, b) == IF b = <<>> THEN a ELSE Spread(Put(a, Head(b).k, Head(b).v), Tail(b))

----------------------------------------------------------------------------
(* Configuration (libsyncConfigSchema defaults and getters) *)

Disabled == "false"

Extensions == <<".js", ".jsx", ".ts", ".tsx", ".cjs", ".mjs", ".cts", ".mts", ".json">>

Glob(prefix, glob) == [prefix |-> prefix, glob |-> glob]

DefaultIgnoreBuildPaths ==
  <<Glob("", "**/*.test.*"), Glob("", "**/*.spec.*"), Glob("", "**/__tests__/**")>>

LibsyncConfig(cjs, esm, ignoreExport) ==
  [ directories |-> [source |-> "src", cjs |-> "cjs", esm |-> "esm"],
    files |-> [extensions |-> Extensions,
               ignoreBuildPaths |-> DefaultIgnoreBuildPaths,
               ignoreExportPaths |-> ignoreExport,
               writeToGitIgnore |-> TRUE],
    formats |-> [cjs |-> cjs, esm |-> esm, types |-> TRUE] ]

Configs ==
  { LibsyncConfig(c, e, <<>>) : c \in {"cjs", Disabled}, e \in {"esm", Disabled} }

getConfig == config

getSourceDir == getConfig.directories.source

getESMDir == getConfig.directories.esm

getCJSDir == getConfig.directories.cjs

----------------------------------------------------------------------------
(* Paths *)

Path(pre, root, segs, exts) == [pre |-> pre, root |-> root, segs |-> segs, exts |-> exts]

ensureRelativePath(p) == [p EXCEPT !.pre = "./"]

\* a file of the source tree, relative to the source directory
SrcFile(segs, ext) == [segs |-> segs, ext |-> ext]

\* a file below the package root, outside the source directory
RootFile(root, segs, ext) == [root |-> root, segs |-> segs, ext |-> ext]

\* existsSync(join(rootPath, sourceDir, `${rel}${ext}`)) for rel = segs + exts
SourceFileExists(fs, segs, exts, ext) ==
  /\ fs.src.exists
  /\ exts = <<>>
  /\ SrcFile(segs, ext) \in fs.src.files

\* existsSync(join(rootPath, `${dir}/${rel}${ext}`))
RootFileExists(fs, dir, segs, exts, ext) ==
  IF dir = getSourceDir
  THEN SourceFileExists(fs, segs, exts, ext)
  ELSE exts = <<>> /\ RootFile(dir, segs, ext) \in fs.built

hasTypesFile(fs, dir, segs) == RootFile(dir, segs, ".d.ts") \in fs.built

\* the first extension of the list among the hits (indices whose probe
\* succeeded), '.js' if there is none
FirstExt(exts, hits) ==
  IF hits = {} THEN ".js"
  ELSE exts[CHOOSE i \in hits : \A j \in hits : i <= j]

getActualFileExtension(fs, dir, segs, exts, isSource) ==
  FirstExt(getConfig.files.extensions,
           { i \in 1..Len(getConfig.files.extensions) :
               IF isSource
               THEN SourceFileExists(fs, segs, exts, getConfig.files.extensions[i])
               ELSE RootFileExists(fs, dir, segs, exts, getConfig.files.extensions[i]) })

getIndexFileExtension(fs, prod) ==
  IF prod THEN ".ts"
  ELSE FirstExt(getConfig.files.extensions,
                { i \in 1..Len(getConfig.files.extensions) :
                    SourceFileExists(fs, <<"index">>, <<>>, getConfig.files.extensions[i]) })

----------------------------------------------------------------------------
(* Manifest text: readFileSync, JSON.parse, JSON.stringify, the zod schema *)

Text(valid, canon, pkg) == [valid |-> valid, canon |-> canon, pkg |-> pkg]

\* `${JSON.stringify(pkg, null, 2)}\n`
Stringify(pkg) == Text(TRUE, TRUE, pkg)

Lit(val) == [kind |-> "lit", val |-> val]

PathVal(p) == [kind |-> "path", path |-> p]

BinMap(entries) == [kind |-> "bin", entries |-> entries]

ExportsVal(entries) == [kind |-> "exports", entries |-> entries]

Cond(conds) == [kind |-> "cond", conds |-> conds]

SelfRef == [kind |-> "self"]

\* packageJsonSchema.safeParse(raw).success : a non-empty name is required
SchemaOk(pkg) == HasKey(pkg, "name")

\* readPackageJson: "none", or the kind of error it throws
readPackageJsonErr(text) ==
  IF ~text.valid THEN "PackageError"
  ELSE IF ~SchemaOk(text.pkg) THEN "ConfigurationError"
  ELSE "none"

\* has bin but no main/module fields; any read error counts as "not pure CLI"
isPureCLIPackage(text) ==
  /\ readPackageJsonErr(text) = "none"
  /\ HasKey(text.pkg, "bin")
  /\ ~HasKey(text.pkg, "main")
  /\ ~HasKey(text.pkg, "module")

shouldProcessInDev(text) ==
  /\ readPackageJsonErr(text) = "none"
  /\ (HasKey(text.pkg, "main") \/ HasKey(text.pkg, "module"))

\* the enabled formats of the configuration, cjs first: ordered object format -> dir
formatBuilds ==
  (IF getConfig.formats.cjs # Disabled THEN <<[k |-> "cjs", v |-> getConfig.formats.cjs]>> ELSE <<>>)
  \o (IF getConfig.formats.esm # Disabled THEN <<[k |-> "esm", v |-> getConfig.formats.esm]>> ELSE <<>>)

\* the tail of getPackageBuilds, once the manifest was read: a package with a bin
\* and no enabled format gets an ESM build
buildsFor(err, hasBin, builds) ==
  IF err # "none" THEN [err |-> err, builds |-> <<>>]
  ELSE IF builds # <<>> THEN [err |-> "none", builds |-> builds]
  ELSE IF hasBin THEN [err |-> "none", builds |-> <<[k |-> "esm", v |-> getESMDir]>>]
  ELSE [err |-> "ConfigurationError", builds |-> <<>>]

\* getPackageBuilds: [err, builds]; builds is an ordered object format -> dir
getPackageBuilds(text) ==
  buildsFor(readPackageJsonErr(text), HasKey(text.pkg, "bin"), formatBuilds)

----------------------------------------------------------------------------
(* Source tree scanner *)

Entry(base, ext) == [base |-> base, ext |-> ext]

\* every directory entry name of the model's source trees, in the order
\* Array.prototype.sort() gives (UTF-16 code units); a directory has ext ""
EntryOrder ==
  << Entry("__tests__", ""), Entry("cjs", ""),
     Entry("cli", ""), Entry("cli", ".cjs"), Entry("cli", ".cts"),
     Entry("cli", ".js"), Entry("cli", ".json"), Entry("cli", ".jsx"), Entry("cli", ".mjs"),
     Entry("cli", ".mts"), Entry("cli", ".ts"), Entry("cli", ".tsx"),
     Entry("empty", ""), Entry("esm", ".ts"),
     Entry("helper", ""), Entry("helper.test", ".ts"), Entry("helper", ".ts"),
     Entry("index", ".js"), Entry("index", ".ts"), Entry("index", ".tsx"),
     Entry("src", ""), Entry("src", ".ts"), Entry("utils", "") >>

Rank(e) == CHOOSE i \in 1..Len(EntryOrder) : EntryOrder[i] = e

RECURSIVE SortEntries(_)
SortEntries(S) ==
  IF S = {} THEN <<>>
  ELSE LET m == CHOOSE e \in S : \A o \in S : Rank(e) <= Rank(o)
       IN  <<m>> \o SortEntries(S \ {m})

IsPrefix(p, s) == Len(p) <= Len(s) /\ SubSeq(s, 1, Len(p)) = p

\* the directories of the source tree: the explicit ones and every ancestor of a file
SrcDirs(fs) ==
  fs.src.dirs \cup
  UNION { { SubSeq(f.segs, 1, n) : n \in 1..(Len(f.segs) - 1) } : f \in fs.src.files }

\* readdirSync(dir), sorted by name
readdir(fs, prefix) ==
  SortEntries(
    { Entry(Last(f.segs), f.ext) : f \in { g \in fs.src.files : Front(g.segs) = prefix } }
    \cup
    { Entry(Last(d), "") : d \in { e \in SrcDirs(fs) : Len(e) > 0 /\ Front(e) = prefix } })

\* strips a leading `${sourceDir}/` or `./${sourceDir}/` from each pattern
normalizeIgnorePatterns(patterns) ==
  [ i \in 1..Len(patterns) |->
      IF patterns[i].prefix \in { getSourceDir, "./" \o getSourceDir }
      THEN Glob("", patterns[i].glob) ELSE patterns[i] ]

\* minimatch(pathToMatch, pattern) for the patterns the model's configurations use;
\* pathToMatch is the entry `e` inside directory `prefix`
minimatch(prefix, e, pattern) ==
  /\ pattern.prefix = ""
  /\ CASE pattern.glob = "**/*.test.*" -> e.base \in {"helper.test"}
       [] pattern.glob = "**/*.spec.*" -> FALSE
       [] pattern.glob = "**/__tests__/**" -> \E i \in 1..Len(prefix) : prefix[i] = "__tests__"
       [] pattern.glob = "cli.*" -> prefix = <<>> /\ e.base = "cli" /\ e.ext # ""
       [] pattern.glob = "utils/**" -> Len(prefix) > 0 /\ prefix[1] = "utils"
       [] pattern.glob = "utils/index.*" -> prefix = <<"utils">> /\ e.base = "index" /\ e.ext # ""
       [] OTHER -> FALSE

matchesAnyPattern(prefix, e, patterns) ==
  \E i \in 1..Len(patterns) : minimatch(prefix, e, patterns[i])

HasRecognizedExtension(e) == e.ext \in SeqToSet(getConfig.files.extensions)

shouldBuild(prefix, e) ==
  IF matchesAnyPattern(prefix, e, normalizeIgnorePatterns(getConfig.files.ignoreBuildPaths))
    THEN FALSE
  ELSE IF e.ext = "" THEN TRUE
  ELSE HasRecognizedExtension(e)

shouldExport(prefix, e) ==
  IF matchesAnyPattern(prefix, e, normalizeIgnorePatterns(getConfig.files.ignoreBuildPaths))
    THEN FALSE
  ELSE IF matchesAnyPattern(prefix, e, normalizeIgnorePatterns(getConfig.files.ignoreExportPaths))
    THEN FALSE
  ELSE IF e.ext = "" THEN TRUE
  ELSE HasRecognizedExtension(e)

\* /^index\.(ts|js|cjs|mjs)$/
IsIndexName(e) == e.base = "index" /\ e.ext \in {".ts", ".js", ".cjs", ".mjs"}

\* the `index` entry a pure CLI package is reduced to
PureCLIIndex(fs) ==
  IF SrcFile(<<"index">>, ".ts") \in fs.src.files
  THEN SrcFile(<<"index">>, ".ts") ELSE SrcFile(<<"index">>, ".js")

PureCLIHasIndex(fs) ==
  SrcFile(<<"index">>, ".ts") \in fs.src.files \/ SrcFile(<<"index">>, ".js") \in fs.src.files

\* the first name of a listing that is an index file
firstIndexName(listing) ==
  listing[CHOOSE i \in 1..Len(listing) :
            /\ IsIndexName(listing[i])
            /\ \A j \in 1..(i - 1) : ~IsIndexName(listing[j])]

collapseIndexMutantKeepsIndexKey(spread, path, listing) ==
  IF \E i \in 1..Len(listing) : IsIndexName(listing[i])
  THEN Put(spread, path, SrcFile(Append(path, "index"), firstIndexName(listing).ext))
  ELSE spread

\* a directory with an index file exports under its own key only
collapseIndex(spread, path, listing) ==
  IF \E i \in 1..Len(listing) : IsIndexName(listing[i])
  THEN Delete(Put(spread, path, SrcFile(Append(path, "index"), firstIndexName(listing).ext)),
              Append(path, "index"))
  ELSE spread

RECURSIVE publicFilesIn(_, _), reducePublic(_, _, _, _), addPublic(_, _, _, _)
\* the body of getPublicFiles below the pure-CLI shortcut, for directory `prefix`
publicFilesIn(fs, prefix) ==
  reducePublic(fs, SelectSeq(readdir(fs, prefix), LAMBDA e : shouldExport(prefix, e)), <<>>, prefix)

\* one step of the reduce: the entry at `path` is a directory or a file
addPublic(fs, acc, path, e) ==
  IF e.ext = ""
  THEN collapseIndex(Spread(acc, publicFilesIn(fs, path)), path, readdir(fs, path))
  ELSE Put(acc, path, SrcFile(path, e.ext))

reducePublic(fs, files, acc, prefix) ==
  IF files = <<>> THEN acc
  ELSE reducePublic(fs, Tail(files),
                    addPublic(fs, acc, Append(prefix, Head(files).base), Head(files)), prefix)

RECURSIVE buildFilesIn(_, _), reduceBuild(_, _, _, _), addBuild(_, _, _, _)
buildFilesIn(fs, prefix) ==
  reduceBuild(fs, SelectSeq(readdir(fs, prefix), LAMBDA e : shouldBuild(prefix, e)), <<>>, prefix)

addBuild(fs, acc, path, e) ==
  IF e.ext = "" THEN Spread(buildFilesIn(fs, path), acc)
  ELSE Put(acc, path, SrcFile(path, e.ext))

reduceBuild(fs, files, acc, prefix) ==
  IF files = <<>> THEN acc
  ELSE reduceBuild(fs, Tail(files),
                   addBuild(fs, acc, Append(prefix, Head(files).base), Head(files)), prefix)

\* getPublicFiles(getSourcePath(rootPath)) on the tree fs : [err, files]; the manifest text is
\* what isPureCLIPackage reads from disk
getPublicFiles(fs, text) ==
  IF ~fs.src.exists THEN [err |-> "ConfigurationError", files |-> <<>>]
  ELSE IF isPureCLIPackage(text)
    THEN IF ~PureCLIHasIndex(fs)
         THEN [err |-> "ConfigurationError", files |-> <<>>]
         ELSE [err |-> "none", files |-> <<[k |-> <<"index">>, v |-> PureCLIIndex(fs)]>>]
  ELSE IF SelectSeq(readdir(fs, <<>>), LAMBDA e : shouldExport(<<>>, e)) = <<>>
    THEN [err |-> "ConfigurationError", files |-> <<>>]
  ELSE [err |-> "none", files |-> publicFilesIn(fs, <<>>)]

getAllBuildFiles(fs, text) ==
  IF ~fs.src.exists THEN [err |-> "ConfigurationError", files |-> <<>>]
  ELSE IF isPureCLIPackage(text)
    THEN IF ~PureCLIHasIndex(fs)
         THEN [err |-> "ConfigurationError", files |-> <<>>]
         ELSE [err |-> "none", files |-> <<[k |-> <<"index">>, v |-> PureCLIIndex(fs)]>>]
  ELSE IF SelectSeq(readdir(fs, <<>>), LAMBDA e : shouldBuild(<<>>, e)) = <<>>
    THEN [err |-> "ConfigurationError", files |-> <<>>]
  ELSE [err |-> "none", files |-> buildFilesIn(fs, <<>>)]

----------------------------------------------------------------------------
(* Path converter *)

\* replaces the final extension when it is one of `from`
ReplaceFinalExt(exts, from, to) ==
  IF exts # <<>> /\ Last(exts) \in from THEN Append(Front(exts), to) ELSE exts

\* removes the final extension when it is `ext`
StripFinalExt(exts, ext) ==
  IF exts # <<>> /\ Last(exts) = ext THEN Front(exts) ELSE exts

convertPathToProduction(p, builds) ==
  IF p.root # getSourceDir THEN ensureRelativePath(p)
  ELSE IF HasKey(builds, "cjs")
    THEN Path("./", getCJSDir, p.segs,
              ReplaceFinalExt(p.exts, {".js", ".ts", ".mjs", ".mts", ".cjs", ".cts"}, ".cjs"))
  ELSE IF HasKey(builds, "esm")
    THEN Path("./", getESMDir, p.segs,
              ReplaceFinalExt(p.exts, {".ts", ".mts", ".cts"}, ".js"))
  ELSE ensureRelativePath(p)

convertPathToDevelopment(fs, p) ==
  IF p.root = getCJSDir
    THEN LET rel == StripFinalExt(p.exts, ".cjs")
         IN  Path("./", getSourceDir, p.segs,
                  Append(rel, getActualFileExtension(fs, getSourceDir, p.segs, rel, TRUE)))
  ELSE IF p.root = getESMDir
    THEN LET rel == StripFinalExt(p.exts, ".js")
         IN  Path("./", getSourceDir, p.segs,
                  Append(rel, getActualFileExtension(fs, getSourceDir, p.segs, rel, TRUE)))
  ELSE ensureRelativePath(p)

convertBinPaths(fs, bin, mode, builds) ==
  LET conv(q) == IF mode = "production"
                 THEN convertPathToProduction(q, builds)
                 ELSE convertPathToDevelopment(fs, q)
  IN  IF bin.kind = "path" THEN PathVal(conv(bin.path))
      ELSE BinMap([ i \in 1..Len(bin.entries) |->
                      [k |-> bin.entries[i].k, v |-> conv(bin.entries[i].v)] ])

----------------------------------------------------------------------------
(* Manifest synthesizer and writer: writePackageJson *)

Modes == {"development", "production", "production-types"}

\* name === 'index' ? '.' : `./${name.replace(/\/index$/, '')}`
ExportKey(name) ==
  IF name = <<"index">> THEN <<".">>
  ELSE IF Len(name) > 1 /\ Last(name) = "index" THEN Front(name)
  ELSE name

PackageJsonKey == <<"package.json">>

\* the `types` condition of an export entry in the two production modes
BuiltTypes(fs, segs, builds) ==
  IF HasKey(builds, "esm") /\ hasTypesFile(fs, getESMDir, segs)
    THEN <<[k |-> "types", v |-> Path("./", getESMDir, segs, <<".d.ts">>)]>>
  ELSE IF HasKey(builds, "cjs") /\ hasTypesFile(fs, getCJSDir, segs)
    THEN <<[k |-> "types", v |-> Path("./", getCJSDir, segs, <<".d.ts">>)]>>
  ELSE <<>>

getExportsMutantImportFirst(fs, f, mode, builds, originalHadTypes) ==
  LET sourceExport == Path("./", getSourceDir, f.segs, <<f.ext>>)
      esmExport == Path("./", getESMDir, f.segs,
                        <<getActualFileExtension(fs, getESMDir, f.segs, <<>>, FALSE)>>)
      cjsExport == Path("./", getCJSDir, f.segs,
                        <<getActualFileExtension(fs, getCJSDir, f.segs, <<>>, FALSE)>>)
      types == IF ~originalHadTypes THEN <<>>
               ELSE IF mode = "development" THEN <<[k |-> "types", v |-> sourceExport]>>
               ELSE BuiltTypes(fs, f.segs, builds)
      import == IF ~HasKey(builds, "esm") THEN <<>>
                ELSE <<[k |-> "import",
                        v |-> IF mode = "production" THEN esmExport ELSE sourceExport]>>
      require == IF ~HasKey(builds, "cjs") THEN <<>>
                 ELSE <<[k |-> "require",
                         v |-> IF mode = "production" THEN cjsExport ELSE sourceExport]>>
  IN  Cond(import \o types \o require)

getExportsMutantBuiltImports(fs, f, mode, builds, originalHadTypes) ==
  LET sourceExport == Path("./", getSourceDir, f.segs, <<f.ext>>)
      esmExport == Path("./", getESMDir, f.segs,
                        <<getActualFileExtension(fs, getESMDir, f.segs, <<>>, FALSE)>>)
      cjsExport == Path("./", getCJSDir, f.segs,
                        <<getActualFileExtension(fs, getCJSDir, f.segs, <<>>, FALSE)>>)
      types == IF ~originalHadTypes THEN <<>>
               ELSE IF mode = "development" THEN <<[k |-> "types", v |-> sourceExport]>>
               ELSE BuiltTypes(fs, f.segs, builds)
      import == IF ~HasKey(builds, "esm") THEN <<>>
                ELSE <<[k |-> "import",
                        v |-> IF mode # "development" THEN esmExport ELSE sourceExport]>>
      require == IF ~HasKey(builds, "cjs") THEN <<>>
                 ELSE <<[k |-> "require",
                         v |-> IF mode = "production" THEN cjsExport ELSE sourceExport]>>
  IN  Cond(types \o import \o require)

\* writePackageJson.getExports(path) for the source file f
getExports(fs, f, mode, builds, originalHadTypes) ==
  LET sourceExport == Path("./", getSourceDir, f.segs, <<f.ext>>)
      esmExport == Path("./", getESMDir, f.segs,
                        <<getActualFileExtension(fs, getESMDir, f.segs, <<>>, FALSE)>>)
      cjsExport == Path("./", getCJSDir, f.segs,
                        <<getActualFileExtension(fs, getCJSDir, f.segs, <<>>, FALSE)>>)
      types == IF ~originalHadTypes THEN <<>>
               ELSE IF mode = "development" THEN <<[k |-> "types", v |-> sourceExport]>>
               ELSE BuiltTypes(fs, f.segs, builds)
      import == IF ~HasKey(builds, "esm") THEN <<>>
                ELSE <<[k |-> "import",
                        v |-> IF mode = "production" THEN esmExport ELSE sourceExport]>>
      require == IF ~HasKey(builds, "cjs") THEN <<>>
                 ELSE <<[k |-> "require",
                         v |-> IF mode = "production" THEN cjsExport ELSE sourceExport]>>
  IN  Cond(types \o import \o require)

RECURSIVE moduleExports(_, _, _, _, _, _)
moduleExports(fs, publicFiles, acc, mode, builds, originalHadTypes) ==
  IF publicFiles = <<>> THEN acc
  ELSE moduleExports(fs, Tail(publicFiles),
                     Put(acc, ExportKey(Head(publicFiles).k),
                         getExports(fs, Head(publicFiles).v, mode, builds, originalHadTypes)),
                     mode, builds, originalHadTypes)

\* pkg.types = path, when the condition of the assignment holds
withTypes(pkg, cond, path) == IF cond THEN Put(pkg, "types", PathVal(path)) ELSE pkg

\* ensureRelativePath(join(sourceDir, `index${indexExtension}`))
sourceIndex(fs, mode) ==
  Path("./", getSourceDir, <<"index">>, <<getIndexFileExtension(fs, mode = "production")>>)

\* the `if ('cjs' in builds)` / `if ('esm' in builds)` blocks: field is main or module
setEntryPoint(fs, pkg, field, dir, mode, originalHadTypes) ==
  IF mode = "production"
    THEN withTypes(Put(pkg, field,
                       PathVal(Path("./", dir, <<"index">>,
                                    <<getActualFileExtension(fs, dir, <<"index">>, <<>>, FALSE)>>))),
                   originalHadTypes /\ hasTypesFile(fs, dir, <<"index">>),
                   Path("./", dir, <<"index">>, <<".d.ts">>))
  ELSE IF mode = "production-types"
    THEN withTypes(Put(pkg, field, PathVal(sourceIndex(fs, mode))),
                   originalHadTypes /\ hasTypesFile(fs, dir, <<"index">>),
                   Path("./", dir, <<"index">>, <<".d.ts">>))
  ELSE withTypes(Put(pkg, field, PathVal(sourceIndex(fs, mode))),
                 originalHadTypes, sourceIndex(fs, mode))

withMain(fs, pkg, mode, builds, originalHadTypes) ==
  IF HasKey(builds, "cjs")
  THEN setEntryPoint(fs, pkg, "main", getCJSDir, mode, originalHadTypes) ELSE pkg

withModule(fs, pkg, mode, builds, originalHadTypes) ==
  IF HasKey(builds, "esm")
  THEN setEntryPoint(fs, pkg, "module", getESMDir, mode, originalHadTypes) ELSE pkg

withBin(fs, pkg, mode, builds) ==
  IF HasKey(pkg, "bin")
  THEN Put(pkg, "bin", convertBinPaths(fs, Get(pkg, "bin"), mode, builds)) ELSE pkg

\* pkg.exports = { ...moduleExports, './package.json': './package.json' }
withExports(pkg, exports) ==
  Put(pkg, "exports", ExportsVal(Put(exports, PackageJsonKey, SelfRef)))

\* the object writePackageJson serializes, given the parsed manifest
synthesize(fs, text, mode, publicFiles, builds) ==
  withExports(
    withBin(fs,
            withModule(fs,
                       withMain(fs, text.pkg, mode, builds, HasKey(text.pkg, "types")),
                       mode, builds, HasKey(text.pkg, "types")),
            mode, builds),
    moduleExports(fs, publicFiles, <<>>, mode, builds, HasKey(text.pkg, "types")))

Outcome(err, ret, text, wrote) == [err |-> err, ret |-> ret, text |-> text, wrote |-> wrote]

\* how a writeFileSync call can end: the file holds the new content; the call
\* throws before the file is touched (it cannot be opened); the call throws after
\* the file was truncated, with none or part of the content written
WriteOutcomes == {"written", "refused", "torn"}

\* a truncated or partly written manifest: it does not parse
Torn == Text(FALSE, FALSE, <<>>)

\* what is on disk after writeFileSync(pkgPath, nextContents) ended as `disk`
writeFileSync(text, nextContents, disk) ==
  IF disk = "written" THEN nextContents
  ELSE IF disk = "refused" THEN text
  ELSE Torn

\* the end of writePackageJson: compare, then return or write
compareAndWriteMutantIgnoresCheck(text, nextContents, checkMode, disk) ==
  IF text = nextContents THEN Outcome("none", FALSE, text, FALSE)
  ELSE IF disk # "written"
    THEN Outcome("PackageError", FALSE, writeFileSync(text, nextContents, disk), FALSE)
  ELSE Outcome("none", FALSE, writeFileSync(text, nextContents, disk), TRUE)

compareAndWrite(text, nextContents, checkMode, disk) ==
  IF checkMode THEN Outcome("none", text # nextContents, text, FALSE)
  ELSE IF text = nextContents THEN Outcome("none", FALSE, text, FALSE)
  ELSE IF disk # "written"
    THEN Outcome("PackageError", FALSE, writeFileSync(text, nextContents, disk), FALSE)
  ELSE Outcome("none", FALSE, writeFileSync(text, nextContents, disk), TRUE)

\* the try block of writePackageJson, given what the scanner and getPackageBuilds return
synthesizeAndWrite(fs, text, mode, checkMode, disk, publicFiles, builds) ==
  IF ~text.valid THEN Outcome("PackageError", FALSE, text, FALSE)
  ELSE IF publicFiles.err # "none" THEN Outcome(publicFiles.err, FALSE, text, FALSE)
  ELSE IF builds.err # "none" THEN Outcome(builds.err, FALSE, text, FALSE)
  ELSE compareAndWrite(text,
                       Stringify(synthesize(fs, text, mode, publicFiles.files, builds.builds)),
                       checkMode, disk)

\* writePackageJson(rootPath, mode, checkMode) run on the files fs against the manifest
\* text on disk: err is "none" or the kind of error thrown, ret the value returned,
\* text the manifest on disk afterwards, wrote whether writeFileSync replaced the file
writePackageJson(fs, text, mode, checkMode, disk) ==
  synthesizeAndWrite(fs, text, mode, checkMode, disk,
                     getPublicFiles(fs, text), getPackageBuilds(text))

----------------------------------------------------------------------------
(* Submodule (proxy) manifests *)

StripIndex(name) == IF Len(name) > 1 /\ Last(name) = "index" THEN Front(name) ELSE name

RECURSIVE proxyEntries(_, _)
proxyEntries(publicFiles, acc) ==
  IF publicFiles = <<>> THEN acc
  ELSE
    LET name == Head(publicFiles).k
        filePath == Head(publicFiles).v
        proxyName == StripIndex(name)
        isDirectoryExport == Last(filePath.segs) = "index"
        relativePath == IF isDirectoryExport THEN Append(proxyName, "index") ELSE name
    IN  proxyEntries(Tail(publicFiles),
                     IF proxyName = <<"index">> THEN acc ELSE Put(acc, proxyName, relativePath))

proxyFoldersOf(publicFiles) ==
  IF publicFiles.err # "none" THEN <<>> ELSE proxyEntries(publicFiles.files, <<>>)

\* ordered object proxy name -> path of the module below the source directory;
\* any error of the scan is logged and gives {}
getProxyFolders(fs, text) == proxyFoldersOf(getPublicFiles(fs, text))

NoSource == [exists |-> FALSE, files |-> {}, dirs |-> {}]

\* rimraf of every directory of rootDirs, below the package root
removeRoots(fs, rootDirs) ==
  [ src |-> IF getSourceDir \in rootDirs THEN NoSource ELSE fs.src,
    built |-> { b \in fs.built : b.root \notin rootDirs },
    proxies |-> { q \in fs.proxies : q.name[1] \notin rootDirs } ]

\* the first path segment of every proxy name
proxyRoots(folders) == { folders[i].k[1] : i \in 1..Len(folders) }

\* rimraf of the first segment of every proxy name, below the package root
cleanProxies(fs, text) == removeRoots(fs, proxyRoots(getProxyFolders(fs, text)))

RECURSIVE Ups(_)
Ups(n) == IF n = 0 THEN "" ELSE "../" \o Ups(n - 1)

ProxyName(pkgName, moduleName) == [kind |-> "name", base |-> pkgName, module |-> moduleName]

\* production: the `if ('esm' in builds)` and `if ('cjs' in builds)` blocks
proxyEntryPoint(fs, proxyPkg, builds, format, field, dir, prefix, path, originalHadTypes) ==
  IF ~HasKey(builds, format) THEN proxyPkg
  ELSE withTypes(Put(proxyPkg, field,
                     PathVal(Path(prefix, dir, path,
                                  <<getActualFileExtension(fs, dir, path, <<>>, FALSE)>>))),
                 originalHadTypes /\ hasTypesFile(fs, dir, path),
                 Path(prefix, dir, path, <<".d.ts">>))

\* proxyPkg[field] = srcPath when the condition holds
withSource(proxyPkg, cond, field, srcPath) ==
  IF cond THEN Put(proxyPkg, field, PathVal(srcPath)) ELSE proxyPkg

\* production-types: types point at built declarations, ESM first
proxyBuiltTypes(fs, proxyPkg, builds, prefix, path, originalHadTypes) ==
  IF ~originalHadTypes THEN proxyPkg
  ELSE IF HasKey(builds, "esm") /\ hasTypesFile(fs, getESMDir, path)
    THEN Put(proxyPkg, "types", PathVal(Path(prefix, getESMDir, path, <<".d.ts">>)))
  ELSE IF HasKey(builds, "cjs") /\ hasTypesFile(fs, getCJSDir, path)
    THEN Put(proxyPkg, "types", PathVal(Path(prefix, getCJSDir, path, <<".d.ts">>)))
  ELSE proxyPkg

\* the body of generateProxyPackageJson for each mode
proxyPackage(fs, base, builds, srcPath, prefix, path, mode, originalHadTypes) ==
  IF mode = "production"
    THEN proxyEntryPoint(fs,
           proxyEntryPoint(fs, base, builds, "esm", "module", getESMDir, prefix, path,
                           originalHadTypes),
           builds, "cjs", "main", getCJSDir, prefix, path, originalHadTypes)
  ELSE IF mode = "production-types"
    THEN proxyBuiltTypes(fs,
           withSource(withSource(base, HasKey(builds, "cjs"), "main", srcPath),
                      HasKey(builds, "esm"), "module", srcPath),
           builds, prefix, path, originalHadTypes)
  ELSE withSource(withSource(withSource(base, TRUE, "main", srcPath), TRUE, "module", srcPath),
                  originalHadTypes, "types", srcPath)

\* the object generateProxyPackageJson serializes; called only when the root
\* manifest reads and validates and a build format exists
generateProxyPackageJson(fs, text, moduleName, path, mode) ==
  proxyPackage(fs,
               << [k |-> "name", v |-> ProxyName(Get(text.pkg, "name"), moduleName)],
                  [k |-> "private", v |-> Lit("true")],
                  [k |-> "sideEffects", v |-> Lit("false")] >>,
               getPackageBuilds(text).builds,
               Path(Ups(Len(moduleName)), getSourceDir, path,
                    <<getActualFileExtension(fs, getSourceDir, path, <<>>, TRUE)>>),
               Ups(Len(moduleName)), path, mode, HasKey(text.pkg, "types"))

\* a generated directory <root>/<name>; pkg is <<>> when the directory was
\* created but generating its manifest threw
Proxy(name, pkg) == [name |-> name, pkg |-> pkg]

\* the directories makeProxies creates, each with its package.json
madeProxies(fs, text, mode, folders, canGenerate) ==
  { Proxy(folders[i].k,
          IF canGenerate
          THEN generateProxyPackageJson(fs, text, folders[i].k, folders[i].v, mode)
          ELSE <<>>) : i \in 1..Len(folders) }

addProxies(fs, made) ==
  [fs EXCEPT !.proxies = { q \in @ : \A m \in made : m.name # q.name } \cup made]

\* makeProxies after its cleanProxies call
writeProxies(cleaned, text, mode) ==
  addProxies(cleaned,
             madeProxies(cleaned, text, mode, getProxyFolders(cleaned, text),
                         getPackageBuilds(text).err = "none"))

makeProxies(fs, text, mode) == writeProxies(cleanProxies(fs, text), text, mode)

----------------------------------------------------------------------------
(* Ignore file *)

StartMarker == "# Build artifacts (auto-generated by libsync)"

NoteLine == "# Do not edit this section manually - it will be overwritten"

EndMarker == "# End build artifacts"

RECURSIVE JoinSegs(_)
JoinSegs(segs) ==
  IF Len(segs) = 1 THEN segs[1] ELSE segs[1] \o "/" \o JoinSegs(Tail(segs))

\* every folder name the model can generate, in Array.prototype.sort() order
FolderOrder ==
  << ".cache", "__tests__", "cjs", "cli", "empty", "esm", "helper", "index",
     "src", "src/helper", "utils", "utils/helper", "utils/index" >>

FolderRank(n) == CHOOSE i \in 1..Len(FolderOrder) : FolderOrder[i] = n

\* insertion of one name into a sorted list (duplicates are kept)
RECURSIVE InsertSorted(_, _)
InsertSorted(sorted, n) ==
  IF sorted = <<>> THEN <<n>>
  ELSE IF FolderRank(n) < FolderRank(Head(sorted)) THEN <<n>> \o sorted
  ELSE <<Head(sorted)>> \o InsertSorted(Tail(sorted), n)

RECURSIVE SortFolders(_)
SortFolders(names) ==
  IF names = <<>> THEN <<>> ELSE InsertSorted(SortFolders(Tail(names)), Head(names))

\* the build directories named by the manifest: cjs for main, esm for module
manifestFolders(pkg) ==
  (IF HasKey(pkg, "main") THEN <<getCJSDir>> ELSE <<>>)
  \o (IF HasKey(pkg, "module") THEN <<getESMDir>> ELSE <<>>)

proxyFolderNames(folders) == [ i \in 1..Len(folders) |-> JoinSegs(folders[i].k) ]

getBuildFolders(fs, text, includeProxies) ==
  IF readPackageJsonErr(text) # "none" THEN <<>>
  ELSE IF includeProxies
    THEN manifestFolders(text.pkg) \o proxyFolderNames(getProxyFolders(fs, text))
  ELSE manifestFolders(text.pkg)

\* String.prototype.trimEnd on one line of the model's ignore files
TrimEndLine(line) ==
  CASE line = "dist  " -> "dist"
    [] line = "  " -> ""
    [] OTHER -> line

\* line.trim() === ''
IsBlank(line) == TrimEndLine(line) = ""

RECURSIVE DropTrailingBlank(_)
DropTrailingBlank(lines) ==
  IF lines # <<>> /\ IsBlank(Last(lines)) THEN DropTrailingBlank(Front(lines)) ELSE lines

RECURSIVE DropLeadingBlank(_)
DropLeadingBlank(lines) ==
  IF lines # <<>> /\ IsBlank(Head(lines)) THEN DropLeadingBlank(Tail(lines)) ELSE lines

\* content.trimEnd(), on the lines of the text
trimEnd(lines) ==
  IF DropTrailingBlank(lines) = <<>> THEN <<>>
  ELSE Append(Front(DropTrailingBlank(lines)), TrimEndLine(Last(DropTrailingBlank(lines))))

\* lines.findIndex(line => line.trim() === marker), 0 for -1
FindIndex(lines, marker) ==
  IF \E i \in 1..Len(lines) : lines[i] = marker
  THEN CHOOSE i \in 1..Len(lines) : lines[i] = marker /\ \A j \in 1..(i - 1) : lines[j] # marker
  ELSE 0

\* result.endsWith('\n') ? result : result + '\n', on the lines of the text
EndWithNewline(lines) == IF lines # <<>> /\ Last(lines) = "" /\ Len(lines) > 1 THEN lines ELSE Append(lines, "")

\* the update without its replace branch: the section is always appended
updateGitignoreMutantAlwaysAppends(existing, section) ==
  IF trimEnd(existing) = <<>> THEN Append(section, "")
  ELSE trimEnd(existing) \o <<"">> \o section \o <<"">>

\* a text is the sequence content.split('\n') of its lines
updateGitignoreWithBuildArtifacts(existing, section) ==
  LET startIndex == FindIndex(existing, StartMarker)
      endIndex == FindIndex(existing, EndMarker)
      before == DropTrailingBlank(SubSeq(existing, 1, startIndex - 1))
      after == DropLeadingBlank(SubSeq(existing, endIndex + 1, Len(existing)))
      trimmed == trimEnd(existing)
  IN  IF trimmed = <<>> THEN Append(section, "")
      ELSE IF startIndex # 0 /\ endIndex # 0 /\ endIndex > startIndex
        THEN EndWithNewline(before \o (IF before # <<>> THEN <<"">> ELSE <<>>) \o section
                            \o (IF after # <<>> THEN <<"">> \o after ELSE <<>>))
      ELSE trimmed \o <<"">> \o section \o <<"">>

\* the text cleanGitignore writes: lines.join('\n'), ended with a newline
withoutSection(before, after) ==
  IF before = <<>> /\ after = <<>> THEN <<"", "">>
  ELSE EndWithNewline(before \o (IF before # <<>> /\ after # <<>> THEN <<"">> ELSE <<>>) \o after)

\* the text of the ignore file after cleanGitignore read `existing`
removeBuildArtifacts(existing) ==
  LET startIndex == FindIndex(existing, StartMarker)
      endIndex == FindIndex(existing, EndMarker)
  IN  IF startIndex # 0 /\ endIndex # 0 /\ endIndex > startIndex
      THEN withoutSection(DropTrailingBlank(SubSeq(existing, 1, startIndex - 1)),
                          DropLeadingBlank(SubSeq(existing, endIndex + 1, Len(existing))))
      ELSE existing

NoFile == [exists |-> FALSE, lines |-> <<>>]

File(lines) == [exists |-> TRUE, lines |-> lines]

\* the TypeScript cache directory is ignored too
withCacheDir(buildFolders) ==
  IF getConfig.files.writeToGitIgnore
     /\ \A i \in 1..Len(buildFolders) : buildFolders[i] # ".cache"
  THEN Append(buildFolders, ".cache") ELSE buildFolders

buildArtifactsSection(sorted) ==
  <<StartMarker, NoteLine>> \o [ i \in 1..Len(sorted) |-> "/" \o sorted[i] ] \o <<EndMarker>>

writeGitignore(file, allFolders) ==
  IF allFolders = <<>> THEN file
  ELSE File(updateGitignoreWithBuildArtifacts(
              IF file.exists THEN file.lines ELSE <<"">>,
              buildArtifactsSection(SortFolders(allFolders))))

makeGitignore(fs, text, file) ==
  writeGitignore(file,
                 withCacheDir(getBuildFolders(fs, text, getConfig.files.writeToGitIgnore)))

cleanGitignore(file) ==
  IF ~file.exists THEN file ELSE File(removeBuildArtifacts(file.lines))

----------------------------------------------------------------------------
(* Build command internals *)

\* rimraf of the ESM and CJS build directories
removeBuildDirs(fs) ==
  [fs EXCEPT !.built = { b \in @ : b.root \notin {getESMDir, getCJSDir} }]

\* cleanBuild after its writePackageJson call returned or threw
cleanAfterWrite(fs, r) ==
  IF r.err # "none" THEN [err |-> "PackageError", text |-> r.text, fs |-> fs]
  ELSE [err |-> "none", text |-> r.text, fs |-> removeBuildDirs(cleanProxies(fs, r.text))]

\* cleanBuild(rootPath): [err, text, fs]; every error is rethrown as a PackageError
cleanBuild(fs, text, disk) ==
  cleanAfterWrite(fs, writePackageJson(fs, text, "development", FALSE, disk))

TsConfigFile == [root |-> "", segs |-> <<"tsconfig.build">>, ext |-> ".json"]

shouldGenerateTypes(fs) == getConfig.formats.types /\ TsConfigFile \in fs.built

\* the declaration files are left where they are
cleanExistingTypesMutantKeeps(fs, builds) == fs.built

\* cleanExistingTypes: unlinks every .d.ts below the build directories
cleanExistingTypes(fs, builds) ==
  { b \in fs.built :
      ~(b.ext = ".d.ts" /\ \E i \in 1..Len(builds) : builds[i].v = b.root) }

\* fse.copySync(esmPath, cjsPath) when both formats are built
copyTypes(files, builds) ==
  IF HasKey(builds, "esm") /\ HasKey(builds, "cjs")
  THEN files \cup { RootFile(Get(builds, "cjs"), b.segs, b.ext) :
                      b \in { c \in files : c.root = Get(builds, "esm") } }
  ELSE files

\* a successful runTypeScriptCompilation: the compiler emits one declaration per
\* entry into builds.esm || builds.cjs, then the ESM directory is copied over CJS
runTypeScriptCompilation(files, entry, builds) ==
  copyTypes(files \cup { RootFile(IF HasKey(builds, "esm") THEN Get(builds, "esm")
                                  ELSE Get(builds, "cjs"),
                                  entry[i].v.segs, ".d.ts") : i \in 1..Len(entry) },
            builds)

\* the files one successful bundler run writes for `format`; legacy selects the
\* bundler's extension scheme (.js/.mjs instead of .cjs/.js)
bundle(files, entry, format, outDir, legacy) ==
  LET ext == IF format = "cjs" THEN (IF legacy THEN ".js" ELSE ".cjs")
             ELSE (IF legacy THEN ".mjs" ELSE ".js")
  IN  files \cup { RootFile(outDir, entry[i].v.segs, ext) : i \in 1..Len(entry) }

BundlerErrorText == "tsup: build failed"

NoError == [kind |-> "none", msg |-> "none", detail |-> "none"]

Error(kind, msg, detail) == [kind |-> kind, msg |-> msg, detail |-> detail]

----------------------------------------------------------------------------
(* State *)

FS == [src |-> src, built |-> built, proxies |-> proxies]

\* the record of one operation: which one, its arguments, the error kind it
\* threw ("none" if it returned), the value returned, whether it replaced the
\* manifest file, and how the command classified the package
H(op, mode, check, err, ret, wrote, note) ==
  [op |-> op, mode |-> mode, check |-> check, err |-> err, ret |-> ret,
   wrote |-> wrote, note |-> note]

NoOp == H("none", "none", FALSE, "none", FALSE, FALSE, "none")

Other == H("other", "none", FALSE, "none", FALSE, FALSE, "none")

\* no revert was attempted
NoRevert == [mode |-> "none", err |-> "none"]

\* err is the error a step threw, revert the last revert attempted (its mode
\* and the kind of error it threw), rejected the error buildCommand rejects with;
\* started are the formats the bundler was invoked for, in order, running the
\* invocations that have not settled, returned the ones that resolved
Idle == [pc |-> "idle", typesOnly |-> FALSE, entry |-> <<>>, builds |-> <<>>,
         next |-> 1, err |-> NoError, failedAt |-> "none",
         revert |-> NoRevert, rejected |-> NoError,
         started |-> <<>>, running |-> {}, returned |-> {}]

Running == build.pc \notin {"idle", "done", "failed"}

\* no library function has been called on its own
NoCall == [op |-> "none"]

\* no command over several paths is running
NoRun == [pc |-> "none"]

\* --- the packages the model starts from ---

NoText == Text(FALSE, FALSE, <<>>)

SrcIndexTs == Path("./", "src", <<"index">>, <<".ts">>)

Name == [k |-> "name", v |-> Lit("my-library")]

Version == [k |-> "version", v |-> Lit("1.0.0")]

Scripts == [k |-> "scripts", v |-> Lit("{build}")]

\* library with types; a foreign key sits between the owned ones
ManLib ==
  << Name, Version, [k |-> "main", v |-> PathVal(SrcIndexTs)], Scripts,
     [k |-> "module", v |-> PathVal(SrcIndexTs)],
     [k |-> "types", v |-> PathVal(SrcIndexTs)] >>

\* library without types
ManLibNoTypes ==
  << Name, [k |-> "module", v |-> PathVal(SrcIndexTs)],
     [k |-> "main", v |-> PathVal(SrcIndexTs)], Scripts >>

\* ESM library with types and no main
ManEsm ==
  << Name, [k |-> "types", v |-> PathVal(SrcIndexTs)],
     [k |-> "module", v |-> PathVal(SrcIndexTs)], Version >>

\* dual purpose: library and CLI
ManDual ==
  << Name, [k |-> "bin", v |-> PathVal(Path("./", "src", <<"cli">>, <<".ts">>))],
     [k |-> "main", v |-> PathVal(SrcIndexTs)],
     [k |-> "types", v |-> PathVal(SrcIndexTs)], Version >>

\* pure CLI: bin only
ManCli ==
  << Name, Version,
     [k |-> "bin", v |-> BinMap(<<[k |-> "my-cli", v |-> Path("", "src", <<"index">>, <<".ts">>)]>>)],
     Scripts >>

\* nothing declared
ManBare == << Name, Version >>

\* fails the schema: no name
ManNoName == << Version, [k |-> "main", v |-> PathVal(SrcIndexTs)] >>

Tree(files, dirs) == [exists |-> TRUE, files |-> files, dirs |-> dirs]

TreeLib ==
  Tree({ SrcFile(<<"index">>, ".ts"), SrcFile(<<"utils", "index">>, ".ts"),
         SrcFile(<<"utils", "helper">>, ".ts"), SrcFile(<<"helper.test">>, ".ts") }, {})

TreeCli == Tree({ SrcFile(<<"index">>, ".ts"), SrcFile(<<"cli">>, ".ts") }, {})

TreeTie ==
  Tree({ SrcFile(<<"index">>, ".js"), SrcFile(<<"cli">>, ".js"), SrcFile(<<"helper">>, ".ts") },
       { <<"empty">> })

TreeEmpty == Tree({}, {})

Package(tree, text) == [src |-> tree, manifest |-> text]

Packages ==
  { Package(TreeLib, Text(TRUE, TRUE, ManLib)),
    Package(TreeLib, Text(TRUE, FALSE, ManLib)),
    Package(TreeLib, Text(TRUE, TRUE, ManLibNoTypes)),
    Package(TreeLib, Text(TRUE, TRUE, ManEsm)),
    Package(TreeCli, Text(TRUE, TRUE, ManDual)),
    Package(TreeCli, Text(TRUE, TRUE, ManCli)),
    Package(TreeTie, Text(TRUE, TRUE, ManDual)),
    Package(TreeTie, Text(TRUE, TRUE, ManBare)),
    Package(TreeEmpty, Text(TRUE, TRUE, ManLib)),
    Package(NoSource, Text(TRUE, TRUE, ManLib)),
    Package(TreeCli, Text(TRUE, TRUE, ManNoName)),
    Package(TreeCli, NoText) }

\* what is below the package root besides the sources: build output and .gitignore
Workspace(files, ignore) == [built |-> files, gitignore |-> ignore]

Workspaces ==
  { Workspace({}, NoFile),
    Workspace({ TsConfigFile,
                RootFile("cjs", <<"index">>, ".cjs"), RootFile("cjs", <<"index">>, ".d.ts"),
                RootFile("esm", <<"index">>, ".js"), RootFile("esm", <<"index">>, ".d.ts"),
                RootFile("cjs", <<"cli">>, ".cjs"), RootFile("esm", <<"cli">>, ".js"),
                RootFile("esm", <<"utils", "index">>, ".js") },
              File(<<"node_modules", "">>)),
    Workspace({ RootFile("esm", <<"index">>, ".mjs"), RootFile("esm", <<"index">>, ".d.ts") },
              NoFile) }

\* --- the inputs of the calls made on their own ---

\* default formats with more ignore patterns; the second one is written with
\* the source directory in front
ScanConfigs ==
  { LibsyncConfig("cjs", "esm", <<>>),
    LibsyncConfig("cjs", "esm", <<Glob("", "utils/index.*")>>),
    [LibsyncConfig("cjs", "esm", <<>>) EXCEPT
       !.files.ignoreBuildPaths = Append(DefaultIgnoreBuildPaths, Glob("src", "utils/index.*"))],
    LibsyncConfig("cjs", "esm", <<Glob("./src", "cli.*")>>) }

\* directories with and without an index file, nested, and one whose files are
\* all ignored
TreeNested ==
  Tree({ SrcFile(<<"index">>, ".ts"), SrcFile(<<"utils", "index">>, ".ts"),
         SrcFile(<<"utils", "helper">>, ".ts"), SrcFile(<<"utils", "cli", "helper">>, ".ts"),
         SrcFile(<<"helper", "cli">>, ".ts"), SrcFile(<<"__tests__", "helper">>, ".ts") }, {})

\* a directory that holds nothing but its index file
TreeOnlyIndex ==
  Tree({ SrcFile(<<"index">>, ".ts"), SrcFile(<<"utils", "index">>, ".ts") }, {})

\* only ignored files in the root
TreeTests == Tree({ SrcFile(<<"helper.test">>, ".ts") }, {})

ScanTrees == { TreeLib, TreeCli, TreeTie, TreeEmpty, TreeNested, TreeOnlyIndex, TreeTests, NoSource }

ScanTexts == { Text(TRUE, TRUE, ManLib), Text(TRUE, TRUE, ManCli), Text(TRUE, TRUE, ManBare) }

\* one bin script, in every recognized extension, alone or next to a sibling
\* of the same base name
ConvertTrees ==
  { Tree({ SrcFile(segs, ext) }, {}) :
      segs \in { <<"cli">>, <<"utils", "cli">> }, ext \in SeqToSet(Extensions) }
  \cup { Tree({ SrcFile(<<"cli">>, ".js"), SrcFile(<<"cli">>, ".ts") }, {}), TreeEmpty }

\* every configuration with at least one enabled format
ConvertConfigs == { c \in Configs : c.formats.cjs # Disabled \/ c.formats.esm # Disabled }

\* the paths handed to the converter: source paths with and without the
\* leading './', and a path outside the source directory
ConvertInputs(tree) ==
  { Path(pre, getSourceDir, f.segs, <<f.ext>>) : pre \in {"", "./"}, f \in tree.files }
  \cup { Path("./", getSourceDir, <<"index">>, <<".ts">>),
         Path("./", "bin", <<"cli">>, <<".js">>) }

\* a package whose bin paths are about to be converted
InitConvert ==
  /\ config \in ConvertConfigs
  /\ src \in ConvertTrees
  /\ manifest = Text(TRUE, TRUE, ManDual)
  /\ built = {}
  /\ gitignore = NoFile
  /\ proxies = {}
  /\ build = Idle
  /\ hist = NoOp
  /\ orig = manifest
  /\ edits = 0
  /\ call = NoCall
  /\ run = NoRun

\* a section written by an earlier update
OldSection == buildArtifactsSection(<<".cache", "cjs">>)

\* the ignore files a package starts with: none, empty or blank, the user's own
\* lines with and without a final newline or trailing spaces, and files an
\* earlier update left its section in, at the top, in the middle and at the end
IgnoreFiles ==
  { NoFile,
    File(<<"">>),
    File(<<"  ", "">>),
    File(<<"node_modules">>),
    File(<<"node_modules", "">>),
    File(<<"node_modules", "", ".env", "", "">>),
    File(<<"node_modules", "dist  ", "">>),
    File(OldSection \o <<"">>),
    File(OldSection \o <<"", ".env", "">>),
    File(<<"node_modules", "">> \o OldSection \o <<"">>),
    File(<<"node_modules", "", "">> \o OldSection \o <<"", "", ".env", "dist  ">>),
    File(<<"node_modules">> \o OldSection \o <<".env", "">>) }

IgnoreTexts == { Text(TRUE, TRUE, ManLib), Text(TRUE, TRUE, ManEsm), Text(TRUE, TRUE, ManBare) }

\* a package whose ignore file is about to be updated
InitIgnore ==
  /\ config = LibsyncConfig("cjs", "esm", <<>>)
  /\ src \in { TreeLib, TreeCli }
  /\ manifest \in IgnoreTexts
  /\ built = {}
  /\ gitignore \in IgnoreFiles
  /\ proxies = {}
  /\ build = Idle
  /\ hist = NoOp
  /\ orig = manifest
  /\ edits = 0
  /\ call = NoCall
  /\ run = NoRun

\* a package about to be scanned
InitScan ==
  /\ config \in ScanConfigs
  /\ src \in ScanTrees
  /\ manifest \in ScanTexts
  /\ built = {}
  /\ gitignore = NoFile
  /\ proxies = {}
  /\ build = Idle
  /\ hist = NoOp
  /\ orig = manifest
  /\ edits = 0
  /\ call = NoCall
  /\ run = NoRun

Init ==
  /\ config \in Configs
  /\ \E p \in Packages : src = p.src /\ manifest = p.manifest
  /\ \E w \in Workspaces : built = w.built /\ gitignore = w.gitignore
  /\ proxies = {}
  /\ build = Idle
  /\ hist = NoOp
  /\ orig = manifest
  /\ edits = 0
  /\ call = NoCall
  /\ run = NoRun

----------------------------------------------------------------------------
(* Operations *)

\* the state after a direct call returned or threw r
Written(r, mode, checkMode) ==
  /\ manifest' = r.text
  /\ hist' = H("writePackageJson", mode, checkMode, r.err, r.ret, r.wrote, "none")

\* a direct call writePackageJson(rootPath, mode, checkMode)
WritePackageJsonCall(mode, checkMode, disk) ==
  /\ ~Running
  /\ Written(writePackageJson(FS, manifest, mode, checkMode, disk), mode, checkMode)
  /\ UNCHANGED <<config, src, built, proxies, gitignore, build, orig, edits, call, run>>

\* processCurrentPackage classifies the package before and after synthesis
Classify(text, r, check) ==
  IF readPackageJsonErr(text) # "none" THEN "invalid"
  ELSE IF ~shouldProcessInDev(text) THEN "skipped"
  ELSE IF r.err # "none" THEN "synthesis"
  ELSE IF check /\ r.ret THEN "mismatch"
  ELSE "processed"

\* the files after makeProxies, then makeGitignore
Generated(fs1, text) ==
  /\ src' = fs1.src
  /\ built' = fs1.built
  /\ proxies' = fs1.proxies
  /\ gitignore' = makeGitignore(fs1, text, gitignore)

\* processCurrentPackage once writePackageJson returned or threw r
Processed(r, note, mode, check) ==
  /\ manifest' = IF note \in {"invalid", "skipped"} THEN manifest ELSE r.text
  /\ IF note = "processed" /\ ~check
     THEN Generated(makeProxies(FS, r.text, mode), r.text)
     ELSE UNCHANGED <<src, built, proxies, gitignore>>
  /\ hist' = H("packageJson", mode, check,
               IF note \in {"invalid", "synthesis", "mismatch"} THEN "PackageError" ELSE "none",
               note \notin {"invalid", "skipped"} /\ r.ret,
               note \notin {"invalid", "skipped"} /\ r.wrote, note)

processCurrentPackage(r, mode, check) == Processed(r, Classify(manifest, r, check), mode, check)

\* packageJsonCommand for one package: processCurrentPackage(path, mode, verbose, check)
PackageJsonCommand(mode, check, disk) ==
  /\ ~Running
  /\ config' = config
  /\ processCurrentPackage(writePackageJson(FS, manifest, mode, check, disk), mode, check)
  /\ UNCHANGED <<build, orig, edits, call, run>>

\* the environment adds or removes a source file between commands
EditSource ==
  /\ ~Running
  /\ edits < MaxEdits
  /\ src.exists
  /\ edits' = edits + 1
  /\ src' = [src EXCEPT !.files = IF SrcFile(<<"cli">>, ".ts") \in @
                                  THEN @ \ {SrcFile(<<"cli">>, ".ts")}
                                  ELSE @ \cup {SrcFile(<<"cli">>, ".ts")}]
  /\ hist' = Other
  /\ UNCHANGED <<config, built, manifest, proxies, gitignore, build, orig, call, run>>

\* getAllBuildFiles(sourcePath) and getPublicFiles(sourcePath) on the package as it is
ScanSources ==
  /\ ~Running
  /\ call' = [op |-> "scan", src |-> src, text |-> manifest,
              build |-> getAllBuildFiles(FS, manifest),
              public |-> getPublicFiles(FS, manifest)]
  /\ UNCHANGED <<config, src, built, manifest, proxies, gitignore, build, hist, orig, edits, run>>

\* convertPathToProduction(p, builds), then convertPathToDevelopment of its result
ConvertPath ==
  /\ ~Running
  /\ \E p \in ConvertInputs(src) :
       call' = [op |-> "convert", src |-> src, p |-> p,
                prod |-> convertPathToProduction(p, getPackageBuilds(manifest).builds),
                dev |-> convertPathToDevelopment(
                          FS, convertPathToProduction(p, getPackageBuilds(manifest).builds))]
  /\ UNCHANGED <<config, src, built, manifest, proxies, gitignore, build, hist, orig, edits, run>>

\* the section makeGitignore generates for the package as it is
currentSection ==
  buildArtifactsSection(
    SortFolders(withCacheDir(getBuildFolders(FS, manifest, getConfig.files.writeToGitIgnore))))

\* makeGitignore(rootPath)
MakeGitignore ==
  /\ ~Running
  /\ gitignore' = makeGitignore(FS, manifest, gitignore)
  /\ call' = [op |-> "makeGitignore", before |-> gitignore, section |-> currentSection]
  /\ UNCHANGED <<config, src, built, manifest, proxies, build, hist, orig, edits, run>>

\* cleanGitignore(rootPath)
CleanGitignore ==
  /\ ~Running
  /\ gitignore' = cleanGitignore(gitignore)
  /\ call' = [op |-> "cleanGitignore", before |-> gitignore, section |-> <<>>]
  /\ UNCHANGED <<config, src, built, manifest, proxies, build, hist, orig, edits, run>>

\* --- buildCommand, one action per step between its awaits ---

Fail(kind, msg, detail, at) ==
  [build EXCEPT !.pc = "reverting", !.err = Error(kind, msg, detail), !.failedAt = at]

\* buildCommand starts: initConfig, NODE_ENV
BuildStart(typesOnly) ==
  /\ build.pc = "idle"
  /\ config' = config
  /\ build' = [Idle EXCEPT !.pc = IF typesOnly THEN "analyze" ELSE "clean",
                           !.typesOnly = typesOnly]
  /\ hist' = Other
  /\ UNCHANGED <<src, built, manifest, proxies, gitignore, orig, edits, call, run>>

Cleaned(c) ==
  /\ manifest' = c.text
  /\ src' = c.fs.src
  /\ built' = c.fs.built
  /\ proxies' = c.fs.proxies
  /\ build' = IF c.err # "none" THEN Fail(c.err, "Clean failed", "none", "clean")
              ELSE [build EXCEPT !.pc = "analyze"]

\* step 1: cleanBuild
BuildClean(disk) ==
  /\ build.pc = "clean"
  /\ Cleaned(cleanBuild(FS, manifest, disk))
  /\ UNCHANGED <<config, gitignore, hist, orig, edits, call, run>>

Analyzed(entry, builds) ==
  build' = IF entry.err # "none"
             THEN Fail(entry.err, "Source analysis failed", "none", "analyze")
           ELSE IF builds.err # "none"
             THEN Fail(builds.err, "No build formats", "none", "analyze")
           ELSE [build EXCEPT !.pc = "types", !.entry = entry.files,
                              !.builds = builds.builds]

\* steps 2 and 3: getSourcePath, getAllBuildFiles, getPackageBuilds, mkdir
BuildAnalyze ==
  /\ build.pc = "analyze"
  /\ Analyzed(getAllBuildFiles(FS, manifest), getPackageBuilds(manifest))
  /\ UNCHANGED <<config, src, built, manifest, proxies, gitignore, hist, orig, edits, call, run>>

\* where the build goes after step 4
AfterTypes == IF build.typesOnly THEN "finalize" ELSE "bundle"

Compiled(ok, stale) ==
  IF ~shouldGenerateTypes(FS)
    THEN built' = built /\ build' = [build EXCEPT !.pc = AfterTypes]
  ELSE IF ok
    THEN /\ built' = runTypeScriptCompilation(stale, build.entry, build.builds)
         /\ build' = [build EXCEPT !.pc = AfterTypes]
  ELSE /\ built' = stale
       /\ build' = Fail("PackageError", "TypeScript compilation failed", "tsc", "types")

\* step 4: TypeScript compilation, when types are to be generated
BuildTypes(ok) ==
  /\ build.pc = "types"
  /\ Compiled(ok, IF build.typesOnly THEN cleanExistingTypes(FS, build.builds) ELSE built)
  /\ UNCHANGED <<config, src, manifest, proxies, gitignore, hist, orig, edits, call, run>>

\* the loop goes on without waiting for the invocation to settle
awaitsBuildMutantDetached(running) == TRUE

\* await build({...}): the loop goes on once the invocation has settled
awaitsBuild(running) == running = {}

\* step 6: the loop calls the bundler for the next format of builds
BuildBundleStart ==
  /\ build.pc = "bundle"
  /\ Len(build.started) < Len(build.builds)
  /\ awaitsBuild(build.running)
  /\ build' = [build EXCEPT !.started = Append(@, build.builds[Len(@) + 1].k),
                            !.running = @ \cup {build.builds[Len(build.started) + 1].k}]
  /\ UNCHANGED <<config, src, built, manifest, proxies, gitignore, hist, orig, edits, call, run>>

Bundled(ok, legacy, b) ==
  IF ok
  THEN /\ built' = bundle(built, build.entry, b.k, b.v, legacy)
       /\ build' = [build EXCEPT !.next = @ + 1,
                                 !.running = @ \ {b.k},
                                 !.returned = @ \cup {b.k},
                                 !.pc = IF build.next = Len(build.builds)
                                        THEN "finalize" ELSE "bundle"]
  ELSE /\ built' = built
       /\ build' = [Fail("PackageError", "Failed to build " \o b.k \o " format",
                         BundlerErrorText, "bundle")
                      EXCEPT !.running = @ \ {b.k}]

\* steps 5 and 6: one bundler invocation resolves or rejects
BuildBundle(ok, legacy) ==
  /\ build.pc = "bundle"
  /\ \E i \in 1..Len(build.builds) :
       /\ build.builds[i].k \in build.running
       /\ Bundled(ok, legacy, build.builds[i])
  /\ UNCHANGED <<config, src, manifest, proxies, gitignore, hist, orig, edits, call, run>>

FinalMode == IF build.typesOnly THEN "production-types" ELSE "production"

\* the final writePackageJson returned or threw r; on a throw the inner catch
\* reverts to development before the error goes on to the outer catch
Finalized(r, fs1, revertDisk) ==
  IF r.err = "none"
  THEN manifest' = r.text /\ build' = [build EXCEPT !.pc = "done"]
  ELSE /\ manifest' = writePackageJson(fs1, r.text, "development", FALSE, revertDisk).text
       /\ build' = Fail(r.err, "Failed to write package.json", "none", "finalize")

Metadata(fs1, disk, revertDisk) ==
  /\ src' = fs1.src
  /\ built' = fs1.built
  /\ proxies' = fs1.proxies
  /\ Finalized(writePackageJson(fs1, manifest, FinalMode, FALSE, disk), fs1, revertDisk)

\* step 7 and step 8 (types-only: steps 6 and 7): makeGitignore, makeProxies, then
\* writePackageJson in the final mode
BuildFinalize(disk, revertDisk) ==
  /\ build.pc = "finalize"
  /\ gitignore' = makeGitignore(FS, manifest, gitignore)
  /\ Metadata(makeProxies(FS, manifest, FinalMode), disk, revertDisk)
  /\ UNCHANGED <<config, hist, orig, edits, call, run>>

\* a revert that threw is logged; the error rethrown is the one that was caught
rejectionMutantMasked(error, revertErr) ==
  IF revertErr # "none" THEN Error(revertErr, "Failed to revert package.json", "none")
  ELSE error

\* catch (revertError) { logNonFatalError(...) } ... throw error
rejection(error, revertErr) == error

\* the revert call returned or threw r
Reverted(r, mode) ==
  /\ manifest' = r.text
  /\ build' = [build EXCEPT !.pc = "failed",
                            !.revert = [mode |-> mode, err |-> r.err],
                            !.rejected = rejection(build.err, r.err)]

\* the catch of buildCommand: revert to development, rethrow the original error
BuildRevert(disk) ==
  /\ build.pc = "reverting"
  /\ Reverted(writePackageJson(FS, manifest, "development", FALSE, disk), "development")
  /\ UNCHANGED <<config, src, built, proxies, gitignore, hist, orig, edits, call, run>>

\* --- builds whose output directories are named by commands.build.formats ---

\* configurations whose formats name the directories of `directories` and
\* configurations whose formats name other ones
FormatConfigs ==
  { [LibsyncConfig("cjs", "esm", <<>>) EXCEPT !.formats.cjs = c, !.formats.esm = e] :
      c \in {"cjs", "lib"}, e \in {"esm", "dist"} }

\* a library about to be built
InitFormats ==
  /\ config \in FormatConfigs
  /\ src \in { TreeCli, TreeLib }
  /\ manifest \in { Text(TRUE, TRUE, ManLib), Text(TRUE, TRUE, ManDual), Text(TRUE, TRUE, ManEsm) }
  /\ built \in { {}, {TsConfigFile} }
  /\ gitignore = NoFile
  /\ proxies = {}
  /\ build = Idle
  /\ hist = NoOp
  /\ orig = manifest
  /\ edits = 0
  /\ call = NoCall
  /\ run = NoRun

\* --- cleanProxies and makeProxies called on their own ---

\* source trees with an entry named like a directory of the package root: a
\* file esm.ts, a directory cjs/ with an index file, a file src.ts and a
\* directory src/ without an index file
ProxyTrees ==
  { TreeCli, TreeLib,
    Tree({ SrcFile(<<"index">>, ".ts"), SrcFile(<<"esm">>, ".ts") }, {}),
    Tree({ SrcFile(<<"index">>, ".ts"), SrcFile(<<"cjs", "index">>, ".ts") }, {}),
    Tree({ SrcFile(<<"index">>, ".ts"), SrcFile(<<"src">>, ".ts") }, {}),
    Tree({ SrcFile(<<"index">>, ".ts"), SrcFile(<<"src", "helper">>, ".ts") }, {}) }

ProxyTexts == { Text(TRUE, TRUE, ManLib), Text(TRUE, TRUE, ManEsm), Text(TRUE, TRUE, ManCli) }

\* a package whose submodule directories are about to be cleaned or generated
InitProxies ==
  /\ config \in { LibsyncConfig("cjs", "esm", <<>>), LibsyncConfig(Disabled, "esm", <<>>) }
  /\ src \in ProxyTrees
  /\ manifest \in ProxyTexts
  /\ \E w \in Workspaces : built = w.built /\ gitignore = w.gitignore
  /\ proxies = {}
  /\ build = Idle
  /\ hist = NoOp
  /\ orig = manifest
  /\ edits = 0
  /\ call = NoCall
  /\ run = NoRun

\* the files after a call, and what was there before it
ProxyCall(op, fs1) ==
  /\ src' = fs1.src
  /\ built' = fs1.built
  /\ proxies' = fs1.proxies
  /\ call' = [op |-> op, src |-> src, built |-> built]

\* cleanProxies(rootPath)
CleanProxies ==
  /\ ~Running
  /\ ProxyCall("cleanProxies", cleanProxies(FS, manifest))
  /\ UNCHANGED <<config, manifest, gitignore, build, hist, orig, edits, run>>

\* makeProxies(rootPath, mode)
MakeProxies(mode) ==
  /\ ~Running
  /\ ProxyCall("makeProxies", makeProxies(FS, manifest, mode))
  /\ UNCHANGED <<config, manifest, gitignore, build, hist, orig, edits, run>>

----------------------------------------------------------------------------
(* packageJsonCommand over several paths, and watch mode *)

MaxEvents == 3

\* a package directory: its configuration file, source tree, manifest and
\* generated files
Pkg(dir, cfg, tree, text) ==
  [dir |-> dir, cfg |-> cfg, src |-> tree, manifest |-> text, proxies |-> {},
   gitignore |-> NoFile]

\* the package directories of the workspace: two libraries with different
\* configurations, a pure CLI package and one whose manifest fails the schema
WorkspacePackages ==
  { Pkg("lib", LibsyncConfig("cjs", "esm", <<>>), TreeCli, Text(TRUE, TRUE, ManLib)),
    Pkg("esm-only", LibsyncConfig(Disabled, "esm", <<>>), TreeCli, Text(TRUE, TRUE, ManLib)),
    Pkg("tool", LibsyncConfig("cjs", "esm", <<>>), TreeCli, Text(TRUE, TRUE, ManCli)),
    Pkg("broken", LibsyncConfig("cjs", "esm", <<>>), TreeCli, Text(TRUE, TRUE, ManNoName)) }

\* a path below no package.json
Nowhere == "nowhere"

PathTargets == { q.dir : q \in WorkspacePackages } \cup { Nowhere }

\* findClosestPackageJson(path): the package directory, when there is one
findClosestPackageJson(path) == path # Nowhere

PackageAt(dir) == CHOOSE q \in WorkspacePackages : q.dir = dir

\* groupPathsByPackage: the package directories of the paths, in the order
\* of their first path, each once; a path below no package.json is dropped
RECURSIVE groupPathsByPackage(_, _)
groupPathsByPackage(paths, groups) ==
  IF paths = <<>> THEN groups
  ELSE groupPathsByPackage(
         Tail(paths),
         IF findClosestPackageJson(Head(paths))
            /\ \A i \in 1..Len(groups) : groups[i].dir # Head(paths)
         THEN Append(groups, PackageAt(Head(paths))) ELSE groups)

PkgFS(q) == [src |-> q.src, built |-> {}, proxies |-> q.proxies]

\* the package after makeProxies and makeGitignore ran on the files fs1
pkgGenerated(q, text, fs1) ==
  [q EXCEPT !.manifest = text, !.src = fs1.src, !.proxies = fs1.proxies,
            !.gitignore = makeGitignore(fs1, text, q.gitignore)]

\* the package directory after processCurrentPackage classified it as note
pkgProcessed(q, r, note, mode, check) ==
  IF note \in {"invalid", "skipped"} THEN q
  ELSE IF note = "processed" /\ ~check
    THEN pkgGenerated(q, r.text, makeProxies(PkgFS(q), r.text, mode))
  ELSE [q EXCEPT !.manifest = r.text]

\* a synthesis was run for package dir with the configuration cfg loaded
Use(dir, cfg, phase) == [dir |-> dir, cfg |-> cfg, phase |-> phase]

\* a call stack is empty: a synchronous callback runs to completion before
\* the event loop dispatches the next one
canDispatchMutantReentrant(active) == TRUE

canDispatch(active) == active = {}

\* the command was given its options and paths
MultiStart(paths, mode, check, watch) ==
  /\ run.pc = "idle"
  /\ run' = [run EXCEPT !.mode = mode, !.check = check, !.watch = watch,
                        !.pkgs = groupPathsByPackage(paths, <<>>),
                        !.pc = IF check /\ watch THEN "failed"
                               ELSE IF groupPathsByPackage(paths, <<>>) = <<>> THEN "done"
                               ELSE "init",
                        !.note = IF check /\ watch THEN "usage" ELSE "none"]
  /\ UNCHANGED <<config, src, built, manifest, proxies, gitignore, build, hist, orig, edits, call>>

\* processCurrentPackage up to its await: initConfig(packagePath)
MultiInitConfig ==
  /\ run.pc = "init"
  /\ config' = run.pkgs[run.next].cfg
  /\ run' = [run EXCEPT !.pc = "process"]
  /\ UNCHANGED <<src, built, manifest, proxies, gitignore, build, hist, orig, edits, call>>

\* where the loop goes after package number run.next
AfterPackage ==
  IF run.next < Len(run.pkgs) THEN "init"
  ELSE IF run.watch THEN "watching" ELSE "done"

\* the rest of processCurrentPackage for package q: an invalid package, a
\* synthesis error and a failed check throw, and the throw leaves the loop
MultiProcessed(q, r, note) ==
  run' = [run EXCEPT
            !.pkgs[run.next] = pkgProcessed(q, r, note, run.mode, run.check),
            !.used = IF note \in {"invalid", "skipped"} THEN @
                     ELSE @ \cup {Use(q.dir, getConfig, "loop")},
            !.done = IF note \in {"processed", "skipped"} THEN @ \cup {q.dir} ELSE @,
            !.note = note,
            !.pc = IF note \in {"processed", "skipped"} THEN AfterPackage ELSE "failed",
            !.next = IF note \in {"processed", "skipped"} THEN @ + 1 ELSE @]

MultiClassified(q, r) == MultiProcessed(q, r, Classify(q.manifest, r, run.check))

MultiProcess(disk) ==
  /\ run.pc = "process"
  /\ config' = config
  /\ MultiClassified(run.pkgs[run.next],
                     writePackageJson(PkgFS(run.pkgs[run.next]), run.pkgs[run.next].manifest,
                                      run.mode, run.check, disk))
  /\ UNCHANGED <<src, built, manifest, proxies, gitignore, build, hist, orig, edits, call>>

\* a source file is added to or removed from package number i; its watcher
\* queues the 'add' or 'unlink' event
WatchEvent(i) ==
  /\ run.pc = "watching"
  /\ run.events < MaxEvents
  /\ run' = [run EXCEPT
               !.events = @ + 1,
               !.pkgs[i].src.files = IF SrcFile(<<"cli">>, ".ts") \in @
                                     THEN @ \ {SrcFile(<<"cli">>, ".ts")}
                                     ELSE @ \cup {SrcFile(<<"cli">>, ".ts")},
               !.queue = Append(@, [id |-> run.events + 1, pkg |-> i])]
  /\ UNCHANGED <<config, src, built, manifest, proxies, gitignore, build, hist, orig, edits, call>>

\* the event loop calls processFileChange for the oldest queued event
WatchDispatch ==
  /\ run.pc = "watching"
  /\ run.queue # <<>>
  /\ canDispatch(run.active)
  /\ run' = [run EXCEPT !.queue = Tail(@),
                        !.active = @ \cup {[id |-> Head(run.queue).id,
                                            pkg |-> Head(run.queue).pkg, step |-> "write"]}]
  /\ UNCHANGED <<config, src, built, manifest, proxies, gitignore, build, hist, orig, edits, call>>

\* the run a left the handler: it returned, or its error was caught and logged
Left(a, pkgs, failed) ==
  [run EXCEPT !.pkgs = pkgs, !.active = @ \ {a}, !.handled = @ + 1,
              !.errors = IF failed THEN @ + 1 ELSE @]

\* processFileChange: analyzePackage, shouldProcessInDev, writePackageJson
WatchWritten(a, q, r) ==
  run' =
    IF readPackageJsonErr(q.manifest) # "none" \/ ~shouldProcessInDev(q.manifest)
      THEN Left(a, run.pkgs, FALSE)
    ELSE IF r.err # "none"
      THEN [Left(a, [run.pkgs EXCEPT ![a.pkg].manifest = r.text], TRUE)
              EXCEPT !.used = @ \cup {Use(q.dir, getConfig, "watch")}]
    ELSE [run EXCEPT !.pkgs[a.pkg].manifest = r.text,
                     !.used = @ \cup {Use(q.dir, getConfig, "watch")},
                     !.writers = @ \cup {Cardinality(run.active)},
                     !.active = (@ \ {a}) \cup {[a EXCEPT !.step = "proxies"]}]

WatchWrite(disk) ==
  /\ run.pc = "watching"
  /\ \E a \in run.active :
       /\ a.step = "write"
       /\ WatchWritten(a, run.pkgs[a.pkg],
                       writePackageJson(PkgFS(run.pkgs[a.pkg]), run.pkgs[a.pkg].manifest,
                                        run.mode, FALSE, disk))
  /\ UNCHANGED <<config, src, built, manifest, proxies, gitignore, build, hist, orig, edits, call>>

WatchProxiesMade(a, q, fs1) ==
  run' = [run EXCEPT !.pkgs[a.pkg].src = fs1.src,
                     !.pkgs[a.pkg].proxies = fs1.proxies,
                     !.active = (@ \ {a}) \cup {[a EXCEPT !.step = "gitignore"]}]

\* processFileChange: makeProxies
WatchProxies ==
  /\ run.pc = "watching"
  /\ \E a \in run.active :
       /\ a.step = "proxies"
       /\ WatchProxiesMade(a, run.pkgs[a.pkg],
                           makeProxies(PkgFS(run.pkgs[a.pkg]), run.pkgs[a.pkg].manifest,
                                       run.mode))
  /\ UNCHANGED <<config, src, built, manifest, proxies, gitignore, build, hist, orig, edits, call>>

\* processFileChange: makeGitignore, then the handler returns
WatchGitignore ==
  /\ run.pc = "watching"
  /\ \E a \in run.active :
       /\ a.step = "gitignore"
       /\ run' = Left(a, [run.pkgs EXCEPT
                            ![a.pkg].gitignore =
                               makeGitignore(PkgFS(run.pkgs[a.pkg]), run.pkgs[a.pkg].manifest,
                                             run.pkgs[a.pkg].gitignore)],
                      FALSE)
  /\ UNCHANGED <<config, src, built, manifest, proxies, gitignore, build, hist, orig, edits, call>>

\* the command has not started: no package grouped, no configuration used,
\* no event seen
IdleRun ==
  [pc |-> "idle", mode |-> "development", check |-> FALSE, watch |-> FALSE,
   pkgs |-> <<>>, next |-> 1, done |-> {}, note |-> "none", used |-> {},
   queue |-> <<>>, active |-> {}, events |-> 0, handled |-> 0, errors |-> 0,
   writers |-> {}]

\* the command line is about to be read; no configuration is loaded yet
InitMulti ==
  /\ config = LibsyncConfig("cjs", "esm", <<>>)
  /\ src = TreeCli
  /\ manifest = Text(TRUE, TRUE, ManLib)
  /\ built = {}
  /\ gitignore = NoFile
  /\ proxies = {}
  /\ build = Idle
  /\ hist = NoOp
  /\ orig = manifest
  /\ edits = 0
  /\ call = NoCall
  /\ run = IdleRun

----------------------------------------------------------------------------
(* Specifications *)

\* direct calls of writePackageJson with the sources changing in between
Next ==
  \/ \E mode \in Modes, checkMode \in BOOLEAN, disk \in WriteOutcomes :
       WritePackageJsonCall(mode, checkMode, disk)
  \/ EditSource

Spec == Init /\ [][Next]_vars

\* the package-json command
NextCommand ==
  \/ \E mode \in {"development", "production"}, check \in BOOLEAN, disk \in WriteOutcomes :
       PackageJsonCommand(mode, check, disk)
  \/ EditSource

SpecCommand == Init /\ [][NextCommand]_vars

\* one run of the build command
NextBuild ==
  \/ \E typesOnly \in BOOLEAN : BuildStart(typesOnly)
  \/ \E disk \in WriteOutcomes : BuildClean(disk)
  \/ BuildAnalyze
  \/ \E ok \in BOOLEAN : BuildTypes(ok)
  \/ BuildBundleStart
  \/ \E ok \in BOOLEAN, legacy \in BOOLEAN : BuildBundle(ok, legacy)
  \/ \E disk \in WriteOutcomes, revertDisk \in WriteOutcomes : BuildFinalize(disk, revertDisk)
  \/ \E disk \in WriteOutcomes : BuildRevert(disk)

SpecBuild == Init /\ [][NextBuild]_vars

\* the scanner called on its own, with the sources changing in between
NextScan ==
  \/ ScanSources
  \/ EditSource

SpecScan == InitScan /\ [][NextScan]_vars

NextIgnore == \/ MakeGitignore \/ CleanGitignore \/ EditSource

SpecIgnore == InitIgnore /\ [][NextIgnore]_vars

\* the package-json command over one or two paths, with its watchers
NextMulti ==
  \/ \E a \in PathTargets, b \in PathTargets \cup {"none"},
        mode \in {"development", "production"}, check \in BOOLEAN, watch \in BOOLEAN :
       MultiStart(IF b = "none" THEN <<a>> ELSE <<a, b>>, mode, check, watch)
  \/ MultiInitConfig
  \/ \E disk \in WriteOutcomes : MultiProcess(disk)
  \/ \E i \in 1..Len(run.pkgs) : WatchEvent(i)
  \/ WatchDispatch
  \/ \E disk \in WriteOutcomes : WatchWrite(disk)
  \/ WatchProxies
  \/ WatchGitignore

SpecMulti == InitMulti /\ [][NextMulti]_vars

\* one run of the build command under each configuration of the formats
SpecFormats == InitFormats /\ [][NextBuild]_vars

\* submodule cleanup and generation, with the sources changing in between
NextProxies ==
  \/ CleanProxies
  \/ \E mode \in Modes : MakeProxies(mode)
  \/ EditSource

SpecProxies == InitProxies /\ [][NextProxies]_vars

NextConvert == \/ ConvertPath \/ EditSource

SpecConvert == InitConvert /\ [][NextConvert]_vars

----------------------------------------------------------------------------
(* Properties *)

OwnedKeys == {"main", "module", "types", "bin", "exports"}

BuildDirs == {getESMDir, getCJSDir}

\* the entries of the exports map of a manifest object
ExportEntries(pkg) ==
  IF HasKey(pkg, "exports") THEN SeqToSet(Get(pkg, "exports").entries) ELSE {}

\* the conditional entries: every export key other than ./package.json
CondEntries(pkg) == { e \in ExportEntries(pkg) : e.v.kind = "cond" }

ExportPaths(pkg) == UNION { { c.v : c \in SeqToSet(e.v.conds) } : e \in CondEntries(pkg) }

BinPaths(pkg) ==
  IF ~HasKey(pkg, "bin") THEN {}
  ELSE IF Get(pkg, "bin").kind = "path" THEN { Get(pkg, "bin").path }
  ELSE { e.v : e \in SeqToSet(Get(pkg, "bin").entries) }

FieldPaths(pkg) ==
  { Get(pkg, k).path : k \in { f \in {"main", "module", "types"} : HasKey(pkg, f) } }

\* every path held by a field this system owns
OwnedPaths(pkg) == FieldPaths(pkg) \cup BinPaths(pkg) \cup ExportPaths(pkg)

\* the owned fields of a manifest object with their values
Owned(pkg) == { e \in SeqToSet(pkg) : e.k \in OwnedKeys }

\* h records a direct writePackageJson call, not in check mode, that returned
SuccessfulWrite(h) == h.op = "writePackageJson" /\ ~h.check /\ h.err = "none"

\* the text writePackageJson computes for `text` in `mode` on the current files
NextContents(text, mode) ==
  Stringify(synthesize(FS, text, mode, getPublicFiles(FS, text).files,
                       getPackageBuilds(text).builds))

\* synthesis of `text` runs to the comparison on the current files
Synthesizes(text) ==
  /\ text.valid
  /\ getPublicFiles(FS, text).err = "none"
  /\ getPackageBuilds(text).err = "none"

\* C1: calling writePackageJson twice in a row with the same mode and nothing
\* changed in between leaves the manifest byte-identical: the second call
\* computes the same text, returns and performs no write.
C1_Idempotence ==
  [][ (/\ SuccessfulWrite(hist)
       /\ hist'.op = "writePackageJson" /\ ~hist'.check /\ hist'.mode = hist.mode)
      => (manifest' = manifest /\ ~hist'.wrote /\ hist'.err = "none") ]_vars

\* C2: when a bundler run fails during a build that is not types-only, the
\* finished buildCommand leaves the manifest in development mode (main, module,
\* types, exports and bin point at the source directory) and rejects with an
\* error that carries the bundler's error text.
C2_BundlerFailureReverts ==
  (build.pc = "failed" /\ build.failedAt = "bundle")
  => /\ ~build.typesOnly
     /\ manifest.valid
     /\ HasKey(manifest.pkg, "exports")
     /\ \A p \in OwnedPaths(manifest.pkg) : p.root = getSourceDir
     /\ build.err.kind = "PackageError"
     /\ build.err.detail = BundlerErrorText

\* C2 witness: the bundler failed on the second format, after the clean step
\* had rewritten the manifest, and buildCommand has finished.
C2_Witness ==
  /\ build.pc = "failed" /\ build.failedAt = "bundle"
  /\ build.next = 2
  /\ manifest # orig
  /\ HasKey(manifest.pkg, "bin")

\* C3: development synthesis after a production or production-types synthesis
\* gives owned fields equal to those development synthesis produces from the
\* manifest that was never in another mode, and no owned path points at a
\* build directory.
C3_ModeCoercion ==
  [][ (/\ SuccessfulWrite(hist) /\ hist.mode \in {"production", "production-types"}
       /\ SuccessfulWrite(hist') /\ hist'.mode = "development"
       /\ Synthesizes(orig))
      => (/\ Owned(manifest'.pkg) = Owned(NextContents(orig, "development").pkg)
          /\ \A p \in OwnedPaths(manifest'.pkg) : p.root \notin BuildDirs) ]_vars

\* a step of the package-json command in check mode
CheckCommandStep == hist'.op = "packageJson" /\ hist'.check

\* the check command changes no file
ChecksOnly ==
  /\ manifest' = manifest
  /\ proxies' = proxies
  /\ gitignore' = gitignore
  /\ src' = src
  /\ built' = built

\* C4 (as stated): in check mode writePackageJson never writes and returns true
\* exactly when the synthesized text differs from the text on disk; the
\* package-json command in check mode changes no submodule directory and no
\* ignore file, and fails exactly when a difference exists.
C4_CheckFailsIffDifferent ==
  [][ (CheckCommandStep /\ Synthesizes(manifest))
      => (/\ ChecksOnly
          /\ (hist'.err # "none") = (manifest # NextContents(manifest, hist'.mode))) ]_vars

\* C4 (amended): the check command changes no file; a package that declares
\* main or module and whose synthesis succeeds makes writePackageJson return
\* true, and the command fail, exactly when the synthesized text differs from
\* the text on disk; a package that declares neither is skipped and passes
\* whatever synthesis would give; an unreadable or invalid manifest and a
\* failing synthesis make the command fail.
C4_CheckMode ==
  [][ CheckCommandStep
      => (/\ ChecksOnly
          /\ ~hist'.wrote
          /\ hist'.note = (IF readPackageJsonErr(manifest) # "none" THEN "invalid"
                           ELSE IF ~shouldProcessInDev(manifest) THEN "skipped"
                           ELSE IF ~Synthesizes(manifest) THEN "synthesis"
                           ELSE IF manifest # NextContents(manifest, hist'.mode) THEN "mismatch"
                           ELSE "processed")
          /\ (hist'.note \in {"mismatch", "processed"}
                => hist'.ret = (manifest # NextContents(manifest, hist'.mode)))
          /\ (hist'.err # "none") = (hist'.note \in {"invalid", "synthesis", "mismatch"})) ]_vars

\* C4 witness: a check run has failed on a difference, with nothing written,
\* after an earlier run generated submodule directories and the ignore file.
C4_Witness ==
  /\ hist.op = "packageJson" /\ hist.check
  /\ hist.note = "mismatch" /\ hist.ret /\ hist.err = "PackageError"
  /\ proxies # {}
  /\ gitignore.exists

\* C5: when writePackageJson fails at any point, the manifest on disk is
\* byte-identical to what it was before the call.
C5_FailureLeavesManifest ==
  [][ (hist'.op = "writePackageJson" /\ hist'.err # "none") => manifest' = manifest ]_vars

CondOrder == <<"types", "import", "require">>

CondRank(key) == CHOOSE n \in 1..Len(CondOrder) : CondOrder[n] = key

\* C6: in every manifest written by writePackageJson each conditional export
\* entry lists the sub-keys it has in the order types, import, require.
C6_ConditionOrder ==
  manifest.valid =>
    \A e \in CondEntries(manifest.pkg) :
      /\ \A i \in 1..Len(e.v.conds) : e.v.conds[i].k \in SeqToSet(CondOrder)
      /\ \A i, j \in 1..Len(e.v.conds) :
           i < j => CondRank(e.v.conds[i].k) < CondRank(e.v.conds[j].k)

\* C6 witness: a written production-types manifest has an entry with all
\* three sub-keys.
C6_Witness ==
  /\ SuccessfulWrite(hist) /\ hist.wrote /\ hist.mode = "production-types"
  /\ \E e \in CondEntries(manifest.pkg) : Keys(e.v.conds) = CondOrder

\* the target of one sub-key of a conditional entry is right for the mode
TargetOk(mode, c) ==
  IF mode = "development" THEN c.v.root = getSourceDir
  ELSE IF mode = "production" THEN c.v.root \in BuildDirs
  ELSE IF c.k = "types" THEN c.v.root \in BuildDirs /\ c.v.exts = <<".d.ts">>
  ELSE c.v.root = getSourceDir

DeclarationExists(p, files) ==
  /\ p.root \in BuildDirs
  /\ p.exts = <<".d.ts">>
  /\ RootFile(p.root, p.segs, ".d.ts") \in files

\* C8: after production synthesis the root manifest has a types field only if
\* the manifest declared types before and the declaration file the field names
\* exists under the ESM or CJS build directory; when the manifest declared no
\* types, none is added to the root manifest, to an export entry or to a
\* submodule manifest.
C8_TypesOnlyWhenBuilt ==
  [][ (/\ hist'.op = "packageJson" /\ ~hist'.check /\ hist'.note = "processed"
       /\ hist'.mode = "production")
      => (/\ HasKey(manifest'.pkg, "types")
                => /\ HasKey(manifest.pkg, "types")
                   /\ DeclarationExists(Get(manifest'.pkg, "types").path, built')
          /\ ~HasKey(manifest.pkg, "types")
                => /\ \A e \in CondEntries(manifest'.pkg) : ~HasKey(e.v.conds, "types")
                   /\ \A q \in proxies' : ~HasKey(q.pkg, "types")) ]_vars

\* the first configured extension for which <dir>/index<ext> exists
FirstIndexExt(dir) ==
  Extensions[CHOOSE i \in 1..Len(Extensions) :
               /\ RootFile(dir, <<"index">>, Extensions[i]) \in built
               /\ \A j \in 1..(i - 1) : RootFile(dir, <<"index">>, Extensions[j]) \notin built]

HasIndex(dir) == \E i \in 1..Len(Extensions) : RootFile(dir, <<"index">>, Extensions[i]) \in built

\* only ESM is enabled, types is declared, esm/index.d.ts exists and
\* esm/index.mjs is the only runtime index file
EsmOnlyScenario ==
  /\ getConfig.formats.cjs = Disabled /\ getConfig.formats.esm # Disabled
  /\ HasKey(manifest.pkg, "types")
  /\ RootFile(getESMDir, <<"index">>, ".d.ts") \in built
  /\ HasIndex(getESMDir) /\ FirstIndexExt(getESMDir) = ".mjs"
  /\ \A i \in 1..Len(Extensions) :
       Extensions[i] # ".mjs" => RootFile(getESMDir, <<"index">>, Extensions[i]) \notin built

\* the call assigned key: it is there afterwards, new or with another value
Assigned(key) ==
  /\ HasKey(manifest'.pkg, key)
  /\ HasKey(manifest.pkg, key) => Get(manifest'.pkg, key) # Get(manifest.pkg, key)

\* C9: production synthesis sets main only when CJS is enabled and module only
\* when ESM is enabled, each naming the index file with the first configured
\* extension that exists on disk; in the ESM-only scenario it yields
\* module = ./esm/index.mjs, types = ./esm/index.d.ts and a manifest with no
\* main field.
C9_EntryPoints ==
  [][ (SuccessfulWrite(hist') /\ hist'.mode = "production" /\ manifest.valid)
      => (/\ Assigned("main") => getConfig.formats.cjs # Disabled
          /\ Assigned("module") => getConfig.formats.esm # Disabled
          /\ (getConfig.formats.cjs # Disabled /\ HasIndex(getCJSDir))
               => Get(manifest'.pkg, "main").path
                    = Path("./", getCJSDir, <<"index">>, <<FirstIndexExt(getCJSDir)>>)
          /\ (getConfig.formats.esm # Disabled /\ HasIndex(getESMDir))
               => Get(manifest'.pkg, "module").path
                    = Path("./", getESMDir, <<"index">>, <<FirstIndexExt(getESMDir)>>)
          /\ EsmOnlyScenario
               => /\ Get(manifest'.pkg, "module").path
                       = Path("./", getESMDir, <<"index">>, <<".mjs">>)
                  /\ Get(manifest'.pkg, "types").path
                       = Path("./", getESMDir, <<"index">>, <<".d.ts">>)
                  /\ ~HasKey(manifest'.pkg, "main")) ]_vars

----------------------------------------------------------------------------
(* Properties of the source tree scanner *)

\* the files the last scan read
ScanFS == [src |-> call.src, built |-> {}, proxies |-> {}]

\* the last call scanned the whole tree for exports and returned a map
ScannedExports ==
  /\ call.op = "scan"
  /\ call.public.err = "none"
  /\ ~isPureCLIPackage(call.text)

ExportMap == call.public.files

\* the export scan descends into directory d: d and its ancestors are export-eligible
Reached(d) ==
  \A n \in 1..Len(d) : shouldExport(SubSeq(d, 1, n - 1), Entry(d[n], ""))

\* the files directly inside directory d
FilesIn(d) == { f \in call.src.files : Front(f.segs) = d }

\* the export-eligible files directly inside directory d
EligibleIn(d) == { f \in FilesIn(d) : shouldExport(d, Entry(Last(f.segs), f.ext)) }

\* directory d contains an index file
IndexedDir(d) == \E f \in FilesIn(d) : IsIndexName(Entry(Last(f.segs), f.ext))

\* the directories the export scan descends into, the root excluded
ReachedDirs == { d \in SrcDirs(ScanFS) : Reached(d) }

ScannedBoth ==
  /\ call.op = "scan"
  /\ call.public.err = "none"
  /\ call.build.err = "none"

\* file f matches one of the patterns of the list
Ignored(f, patterns) ==
  matchesAnyPattern(Front(f.segs), Entry(Last(f.segs), f.ext), normalizeIgnorePatterns(patterns))

\* the files a map names
MapFiles(map) == { map[i].v : i \in 1..Len(map) }

\* C12: every file of the export map is also in the build-file map, and no
\* exported file, a directory's index file included, matches a build-ignore or
\* an export-ignore pattern.
C12_ExportedIsBuilt ==
  ScannedBoth =>
    \A f \in MapFiles(call.public.files) :
      /\ f \in MapFiles(call.build.files)
      /\ ~Ignored(f, getConfig.files.ignoreBuildPaths)
      /\ ~Ignored(f, getConfig.files.ignoreExportPaths)

\* buildCommand has analysed the sources (step 2) without an error
BuildAnalysed == build.entry # <<>>

\* C13: a package that is pure CLI (bin, neither main nor module) when the
\* command starts is scanned as a single unit by every scan of the command:
\* the build-file map has exactly one entry, the index file, and so has the
\* export map the finished build leaves in the manifest.
C13_PureCLISingleUnit ==
  isPureCLIPackage(orig) =>
    /\ BuildAnalysed
         => /\ Len(build.entry) = 1
            /\ build.entry[1] = [k |-> <<"index">>, v |-> PureCLIIndex(FS)]
    /\ build.pc = "done"
         => \A e \in CondEntries(manifest.pkg) : e.k = <<".">>

\* C13 witness: a full build of a pure CLI package got past source analysis.
C13_Witness ==
  /\ isPureCLIPackage(orig)
  /\ ~build.typesOnly
  /\ BuildAnalysed
  /\ build.pc = "bundle"

\* the last call scanned the whole tree of an existing source directory
ScannedTree ==
  /\ call.op = "scan"
  /\ call.src.exists
  /\ ~isPureCLIPackage(call.text)

\* the build-eligible and the export-eligible entries of directory d
BuildEntries(d) == SelectSeq(readdir(ScanFS, d), LAMBDA e : shouldBuild(d, e))

EligibleEntries(d) == SelectSeq(readdir(ScanFS, d), LAMBDA e : shouldExport(d, e))

\* the build scan descends into directory d
ReachedByBuild(d) ==
  \A n \in 1..Len(d) : shouldBuild(SubSeq(d, 1, n - 1), Entry(d[n], ""))

\* map has no entry for directory d or for anything inside it
Absent(d, map) == \A i \in 1..Len(map) : ~IsPrefix(d, map[i].k)

\* C14: an eligible subdirectory with no eligible files raises no error and has
\* no entry in the build-file map or in the export map; a source root with
\* zero eligible entries raises a ConfigurationError.
C14_EmptySubdirectory ==
  ScannedTree =>
    /\ call.build.err = (IF BuildEntries(<<>>) = <<>> THEN "ConfigurationError" ELSE "none")
    /\ call.public.err = (IF EligibleEntries(<<>>) = <<>> THEN "ConfigurationError" ELSE "none")
    /\ \A d \in SrcDirs(ScanFS) :
         /\ (ReachedByBuild(d) /\ BuildEntries(d) = <<>>) => Absent(d, call.build.files)
         /\ (Reached(d) /\ EligibleEntries(d) = <<>>) => Absent(d, call.public.files)

\* a scan met a subdirectory holding files of which none is eligible
C14_Witness ==
  /\ ScannedTree
  /\ call.public.err = "none"
  /\ \E d \in SrcDirs(ScanFS) :
       /\ d # <<>>
       /\ Reached(d)
       /\ FilesIn(d) # {}
       /\ EligibleEntries(d) = <<>>

----------------------------------------------------------------------------
(* Properties of the path converter *)

\* the last call converted a source path whose file exists and is the only
\* source file with its base name
ConvertedSourceFile ==
  /\ call.op = "convert"
  /\ call.p.root = getSourceDir
  /\ Len(call.p.exts) = 1
  /\ call.p.exts[1] \in SeqToSet(Extensions)
  /\ { f \in call.src.files : f.segs = call.p.segs } = { SrcFile(call.p.segs, call.p.exts[1]) }

\* C15: for every path p under the source directory with a recognized
\* extension, whose file exists and is the only source file with its base
\* name, and every configuration with at least one enabled format,
\* convertPathToDevelopment(convertPathToProduction(p)) is p (written with
\* its leading './').
C15_RoundTrip ==
  ConvertedSourceFile => call.dev = ensureRelativePath(call.p)

\* a .tsx source file was converted to its build path and back
C15_Witness ==
  /\ ConvertedSourceFile
  /\ call.p.exts = <<".tsx">>
  /\ call.prod.root # getSourceDir

----------------------------------------------------------------------------
(* Properties of the submodule manifests *)

\* the last operation was a packageJsonCommand that ran its generation pass
GenerationPass == hist.op = "packageJson" /\ hist.note = "processed" /\ ~hist.check

\* the export keys of the root manifest other than '.'
NonRootExportKeys(pkg) == { e.k : e \in { c \in CondEntries(pkg) : c.k # <<".">> } }

\* the generated submodule directories on disk
ProxyDirs == { q.name : q \in proxies }

\* C16: after a submodule generation pass the generated submodule directories
\* on disk are exactly the non-root export keys: every such key has a directory
\* holding a manifest, and no directory generated by an earlier pass for a name
\* that is no longer exported remains.
C16_ProxiesAreExports ==
  GenerationPass =>
    /\ ProxyDirs = NonRootExportKeys(manifest.pkg)
    /\ \A q \in proxies : q.pkg # <<>>

\* a generation pass ran after an earlier pass and a change of the source
\* tree, and a directory of the earlier pass is still there
C16_Witness ==
  /\ GenerationPass
  /\ edits > 0
  /\ \E q \in proxies : q.name \notin NonRootExportKeys(manifest.pkg)

\* the conditions of the root manifest's export entry for key
ExportConds(pkg, key) == (CHOOSE e \in CondEntries(pkg) : e.k = key).v.conds

\* the path of a submodule manifest field, resolved from the submodule
\* directory name: one '../' per segment of the name leads to the package root
Resolved(path, name) ==
  IF path.pre = Ups(Len(name)) THEN [path EXCEPT !.pre = "./"] ELSE path

\* field of the submodule manifest q against the condition cond of the root
\* manifest's export entry: present when the condition is, with the same file
SameTarget(q, field, conds, cond) ==
  HasKey(conds, cond) =>
    /\ HasKey(q.pkg, field)
    /\ Resolved(Get(q.pkg, field).path, q.name) = Get(conds, cond)

\* the submodule manifests written by the last generation pass
FreshProxies == { q \in proxies : q.name \in NonRootExportKeys(manifest.pkg) }

\* C17: for every non-root export and every mode, main, module and types of
\* the submodule manifest resolve to the files of require, import and types
\* of the root manifest's entry for that export key, and the submodule
\* manifest has main / module only when the root entry has require / import.
C17_ProxyMatchesRoot ==
  GenerationPass =>
    \A q \in FreshProxies :
      /\ SameTarget(q, "main", ExportConds(manifest.pkg, q.name), "require")
      /\ SameTarget(q, "module", ExportConds(manifest.pkg, q.name), "import")
      /\ SameTarget(q, "types", ExportConds(manifest.pkg, q.name), "types")
      /\ HasKey(q.pkg, "main") => HasKey(ExportConds(manifest.pkg, q.name), "require")
      /\ HasKey(q.pkg, "module") => HasKey(ExportConds(manifest.pkg, q.name), "import")

\* a development pass wrote a submodule manifest for a package with one
\* format disabled
C17_Witness ==
  /\ GenerationPass
  /\ hist.mode = "development"
  /\ FreshProxies # {}
  /\ formatBuilds # <<>>
  /\ Len(formatBuilds) = 1

----------------------------------------------------------------------------
(* Properties of the ignore file manager *)

\* the text has a generated block: a start marker with an end marker after it
HasBlock(lines) ==
  /\ FindIndex(lines, StartMarker) # 0
  /\ FindIndex(lines, EndMarker) > FindIndex(lines, StartMarker)

BeforeBlock(lines) ==
  IF HasBlock(lines) THEN SubSeq(lines, 1, FindIndex(lines, StartMarker) - 1) ELSE lines

AfterBlock(lines) ==
  IF HasBlock(lines) THEN SubSeq(lines, FindIndex(lines, EndMarker) + 1, Len(lines)) ELSE <<>>

TheBlock(lines) ==
  SubSeq(lines, FindIndex(lines, StartMarker), FindIndex(lines, EndMarker))

NonBlank(lines) == SelectSeq(lines, LAMBDA l : ~IsBlank(l))

\* the non-blank lines outside the markers, in their order
UserLines(lines) == NonBlank(BeforeBlock(lines)) \o NonBlank(AfterBlock(lines))

Count(lines, marker) == Cardinality({ i \in 1..Len(lines) : lines[i] = marker })

\* C18: updating or removing the generated block changes nothing outside it:
\* every non-blank line outside the markers is still there, in the same
\* relative order, after makeGitignore and after cleanGitignore.
C18_OutsideUntouched ==
  call.op \in {"makeGitignore", "cleanGitignore"}
    => UserLines(gitignore.lines) = UserLines(call.before.lines)

\* the section was appended to a file that held the user's own lines
C18_Witness ==
  /\ call.op = "makeGitignore"
  /\ ~HasBlock(call.before.lines)
  /\ UserLines(call.before.lines) # <<>>
  /\ HasBlock(gitignore.lines)

\* C19: after any sequence of updates the ignore file holds exactly one
\* generated block, whose content is the latest section; an existing block is
\* replaced in place; when there is none the block is appended after the
\* existing content with exactly one blank line between them.
C19_OneBlock ==
  call.op = "makeGitignore" =>
    /\ gitignore.exists
    /\ HasBlock(gitignore.lines)
    /\ Count(gitignore.lines, StartMarker) = 1
    /\ Count(gitignore.lines, EndMarker) = 1
    /\ TheBlock(gitignore.lines) = call.section
    /\ Last(gitignore.lines) = ""
    /\ HasBlock(call.before.lines)
         => /\ NonBlank(BeforeBlock(gitignore.lines)) = NonBlank(BeforeBlock(call.before.lines))
            /\ NonBlank(AfterBlock(gitignore.lines)) = NonBlank(AfterBlock(call.before.lines))
    /\ (~HasBlock(call.before.lines) /\ NonBlank(call.before.lines) # <<>>)
         => /\ AfterBlock(gitignore.lines) = <<"">>
            /\ Len(NonBlank(BeforeBlock(gitignore.lines))) = Len(NonBlank(call.before.lines))
            /\ Last(BeforeBlock(gitignore.lines)) = ""
            /\ ~IsBlank(BeforeBlock(gitignore.lines)[Len(BeforeBlock(gitignore.lines)) - 1])

\* an update replaced an older section that had user lines before and after it
C19_Witness ==
  /\ call.op = "makeGitignore"
  /\ HasBlock(call.before.lines)
  /\ TheBlock(call.before.lines) # call.section
  /\ NonBlank(BeforeBlock(call.before.lines)) # <<>>
  /\ NonBlank(AfterBlock(call.before.lines)) # <<>>
  /\ TheBlock(gitignore.lines) = call.section

\* an update appended the section to user lines that had no block
C19_WitnessAppend ==
  /\ call.op = "makeGitignore"
  /\ ~HasBlock(call.before.lines)
  /\ NonBlank(call.before.lines) # <<>>
  /\ edits > 0

----------------------------------------------------------------------------
(* Properties of the build orchestrator's error path *)

\* buildCommand has rejected and its revert to development threw as well
RevertFailed == build.pc = "failed" /\ build.revert.err # "none"

\* C20: when a build step fails and the revert write fails too, buildCommand
\* still rejects with the error of the step that failed (the revert's own
\* error is only logged), and the revert only ever attempts development-mode
\* synthesis.
C20_OriginalErrorSurvives ==
  /\ build.pc = "failed" => build.revert.mode = "development"
  /\ RevertFailed
       => /\ build.rejected = build.err
          /\ build.rejected.kind \in {"PackageError", "ConfigurationError"}
          /\ build.failedAt = "bundle" => build.rejected.detail = BundlerErrorText

\* the bundler failed and the revert to development threw
C20_Witness ==
  /\ RevertFailed
  /\ build.failedAt = "bundle"
  /\ build.rejected.detail = BundlerErrorText

----------------------------------------------------------------------------
(* Properties of error propagation *)

\* the kind of error the synthesis of this step's packageJsonCommand throws
\* ("none" when it returns); the outcome of the write does not matter to a
\* ConfigurationError, which is thrown before the manifest is written
SynthesisError == writePackageJson(FS, manifest, hist'.mode, hist'.check, "written").err

\* this step is a packageJsonCommand whose package reached writePackageJson
SynthesisStep ==
  /\ hist'.op = "packageJson"
  /\ readPackageJsonErr(manifest) = "none"
  /\ shouldProcessInDev(manifest)

\* C21: a ConfigurationError raised during synthesis reaches the command
\* boundary as a ConfigurationError and a PackageError as a PackageError: no
\* layer in between rethrows one kind as the other.
C21_ErrorKindPreserved ==
  [][ (SynthesisStep /\ SynthesisError # "none") => hist'.err = SynthesisError ]_vars

\* a packageJsonCommand ended with an error thrown by the synthesis
C21_Witness == hist.op = "packageJson" /\ hist.note = "synthesis"

----------------------------------------------------------------------------
(* Properties of multi-path processing and watch mode *)

\* the loop over the packages is over
LoopOver == run.pc \in {"done", "failed", "watching"}

\* C22: during multi-path processing a package that cannot be read or is
\* invalid is logged and skipped and every remaining package is still
\* processed: such a package never aborts the run.
C22_InvalidPackageSkipped ==
  /\ (run.pc = "failed") => run.note # "invalid"
  /\ (LoopOver /\ run.note \in {"none", "processed", "skipped", "invalid"})
       => \A i \in 1..Len(run.pkgs) :
            readPackageJsonErr(run.pkgs[i].manifest) = "none" => run.pkgs[i].dir \in run.done

\* the run met an invalid package that was followed by a valid one
C22_Witness ==
  /\ LoopOver
  /\ run.note = "invalid"
  /\ run.next < Len(run.pkgs)
  /\ readPackageJsonErr(run.pkgs[Len(run.pkgs)].manifest) = "none"

\* C25: when several packages are processed in one invocation each
\* package's pipeline finishes before the next starts, and every synthesis
\* for a package, including those its watch events trigger later, uses that
\* package's own configuration and never the one loaded for another package.
C25_OwnConfiguration ==
  /\ run.pc \in {"init", "process"}
       => \A i \in 1..(run.next - 1) : run.pkgs[i].dir \in run.done
  /\ \A u \in run.used : u.cfg = PackageAt(u.dir).cfg

\* a watch event of the first of two packages with different configurations
\* triggered a synthesis
C25_Witness ==
  /\ run.pc = "watching"
  /\ Len(run.pkgs) = 2
  /\ run.pkgs[1].cfg # run.pkgs[2].cfg
  /\ \E u \in run.used : u.phase = "watch" /\ u.dir = run.pkgs[1].dir

\* C26: in watch mode synthesis runs never overlap: the run of one event
\* (manifest write, submodule regeneration, ignore-file update) completes
\* before the run of any other event begins, so at most one writer touches
\* the manifest at a time, and an error in one run does not stop later
\* events from being processed: every event seen was handled, is being
\* handled or is still queued, and the watchers stay up.
C26_RunsNeverOverlap ==
  /\ Cardinality(run.active) <= 1
  /\ run.writers \subseteq {1}
  /\ run.events > 0 => run.pc = "watching"
  /\ run.pc # "none" => run.events = run.handled + Cardinality(run.active) + Len(run.queue)
  /\ (run.pc = "watching" /\ run.queue # <<>> /\ run.active = {}) => ENABLED WatchDispatch

\* a second event arrived while the run of the first was between its manifest
\* write and its ignore-file update, and a run has ended with a caught error
C26_Witness ==
  /\ run.pc = "watching"
  /\ run.errors > 0
  /\ run.queue # <<>>
  /\ \E a \in run.active : a.step \in {"proxies", "gitignore"}

----------------------------------------------------------------------------
(* Properties of the build orchestrator *)

\* buildCommand failed and its revert wrote the development manifest
RevertedToDevelopment ==
  /\ build.pc = "failed"
  /\ build.revert.err = "none"
  /\ manifest.valid
  /\ \A p \in OwnedPaths(manifest.pkg) : p.root = getSourceDir

\* the paths of a submodule manifest
ProxyPaths(q) == FieldPaths(q.pkg)

\* C23: when a build fails and the manifest is reverted to development mode,
\* all generated submodule directories are removed: no production-mode
\* submodule manifest remains next to a development-mode root manifest.
C23_RevertRemovesProxies ==
  RevertedToDevelopment => proxies = {}

\* the build failed at its final manifest write, after the submodule
\* manifests were generated, and the revert succeeded
C23_Witness ==
  /\ RevertedToDevelopment
  /\ build.failedAt = "finalize"
  /\ \E q \in proxies : \E p \in ProxyPaths(q) : p.root \in BuildDirs


\* the file a manifest path names exists on disk
NamesExistingFile(p) ==
  /\ Len(p.exts) = 1
  /\ RootFileExists(FS, p.root, p.segs, <<>>, p.exts[1])

\* the main, module and exports paths of a manifest object
RuntimePaths(pkg) ==
  { Get(pkg, k).path : k \in { f \in {"main", "module"} : HasKey(pkg, f) } }
    \cup ExportPaths(pkg)

\* the command wrote a production manifest
ProductionWritten ==
  /\ hist'.op = "packageJson" /\ ~hist'.check /\ hist'.note = "processed"
  /\ hist'.mode = "production"
  /\ manifest' # manifest

\* C24: production synthesis validates that the production build files exist
\* and fails when one is missing instead of falling back to .js or .cjs:
\* every main, module and exports path of a written production manifest names
\* a file that exists on disk.
C24_ProductionFilesExist ==
  [][ ProductionWritten => \A p \in RuntimePaths(manifest'.pkg) : NamesExistingFile(p) ]_vars

\* C24 witness: a production manifest was written while a build directory
\* lacks the file of an exported entry.
C24_Witness ==
  /\ hist.op = "packageJson" /\ ~hist.check /\ hist.note = "processed"
  /\ hist.mode = "production"
  /\ \E p \in RuntimePaths(manifest.pkg) : p.root \in BuildDirs /\ ~NamesExistingFile(p)


\* the declaration files below the directories of builds
DeclarationsOf(files, builds) ==
  { b \in files : b.ext = ".d.ts" /\ \E i \in 1..Len(builds) : builds[i].v = b.root }

\* everything but declaration files
RuntimeFiles(files) == { b \in files : b.ext # ".d.ts" }

\* the manifest r.text is what production-types synthesis computes, and its
\* main and module name no build output
TypesTargeted(r) ==
  /\ manifest' = r.text
  /\ \A k \in {"main", "module"} :
       HasKey(manifest'.pkg, k) => Get(manifest'.pkg, k).path.root \notin BuildDirs

FormatOrder == [i \in 1..Len(build.builds) |-> build.builds[i].k]

\* the step invokes the bundler for one more format
BundlerStarts == Len(build'.started) > Len(build.started)

\* C28: the bundler formats are invoked one at a time in the order of builds:
\* an invocation starts only when none is in progress and every format started
\* before has returned successfully, none starts after a failure, the final
\* production step is reached only after every enabled format succeeded, and
\* the development revert starts only when no invocation is in progress.
C28_FormatsInSequence ==
  [][ /\ Cardinality(build'.running) <= 1
      /\ build'.started = SubSeq(FormatOrder', 1, Len(build'.started))
      /\ BundlerStarts
           => /\ build.running = {}
              /\ SeqToSet(build.started) = build.returned
              /\ build.err = NoError
      /\ (~build'.typesOnly /\ build'.pc \in {"finalize", "done"})
           => build'.returned = SeqToSet(FormatOrder')
      /\ (~build.typesOnly /\ build.pc = "finalize")
           => build.returned = SeqToSet(FormatOrder) /\ build.running = {}
      /\ build'.pc = "reverting" => build'.running = {}
      /\ build.pc = "reverting" => build.running = {} ]_vars

\* C28 witness: the first format returned, the second one was started and
\* failed, and the build is about to revert.
C28_Witness ==
  /\ build.pc = "reverting" /\ build.failedAt = "bundle"
  /\ Len(build.started) = 2
  /\ Cardinality(build.returned) = 1


(* Properties of submodule cleanup and generation *)

\* the files of the build output directories
BuildOutput(files) == { b \in files : b.root \in BuildDirs }

\* C29: cleanProxies and makeProxies never delete the source directory or a
\* configured build output directory, whatever the export names are, a source
\* file or directory named like the source, CJS or ESM directory included.
C29_ProxiesSpareSourceAndBuilds ==
  [][ call'.op \in {"cleanProxies", "makeProxies"}
      => /\ src.exists => src'.exists /\ src'.files = src.files
         /\ BuildOutput(built) \subseteq built' ]_vars

\* C29 witness: the call ran on a package with build output whose export
\* names include the name of the source or of a build directory.
C29_Witness ==
  /\ call.op \in {"cleanProxies", "makeProxies"}
  /\ call.src.exists
  /\ BuildOutput(call.built) # {}
  /\ \E f \in call.src.files : f.segs[1] \in BuildDirs \cup {getSourceDir}


(* Properties of the output directories *)

\* the directory the bundler was given for format
OutDir(format) == Get(build.builds, format)

\* a production build ran to its end
ProductionBuilt == build.pc = "done" /\ ~build.typesOnly

\* the manifest field, when it is there, names a file below the directory the
\* bundler wrote the format to
FieldInOutDir(pkg, field, format) ==
  (HasKey(pkg, field) /\ HasKey(build.builds, format))
    => Get(pkg, field).path.root = OutDir(format)

\* the same for the condition cond of an export entry
CondInOutDir(conds, cond, format) ==
  (HasKey(conds, cond) /\ HasKey(build.builds, format))
    => Get(conds, cond).root = OutDir(format)

\* C30: in production mode the directory of the manifest's main, module and
\* exports paths for a format is the directory the bundler was given as that
\* format's output directory, for every valid configuration, one whose
\* commands.build.formats name other directories than `directories` included.
C30_ManifestNamesOutDir ==
  ProductionBuilt
    => /\ FieldInOutDir(manifest.pkg, "main", "cjs")
       /\ FieldInOutDir(manifest.pkg, "module", "esm")
       /\ \A e \in CondEntries(manifest.pkg) :
            /\ CondInOutDir(e.v.conds, "require", "cjs")
            /\ CondInOutDir(e.v.conds, "import", "esm")

\* C30 witness: a production build ended under a configuration whose CJS
\* format names another directory than directories.cjs.
C30_Witness ==
  /\ ProductionBuilt
  /\ HasKey(build.builds, "cjs") /\ OutDir("cjs") # getCJSDir
  /\ HasKey(manifest.pkg, "main")
  /\ \E b \in built : b.root = OutDir("cjs")

====
